---- MODULE Spec2Model ----
(***************************************************************************)
(* Browserve: the action execution engine (actions/base.py), the event     *)
(* bus (events/handlers.py) and the sequential composition of actions.     *)
(*                                                                         *)
(* Each subsystem is a state machine of its own; a specification runs one  *)
(* of them and keeps the variables of the others at their initial values.  *)
(* Optional values are sets: None is {} and a present value x is {x}.      *)
(* Delays are counted in half seconds (0.5 s = 1).                         *)
(***************************************************************************)
EXTENDS Integers, Sequences, FiniteSets, TLC

\* ---------------------------------------------------------------- bounds
\* Largest retry_count explored (the field admits 0..10).
MaxRetry == 6
\* Largest number of handlers registered on the emitter at one time.
MaxHandlers == 2
\* Largest number of leaf actions in a composition.
MaxSteps == 3
\* Number of events the pages emit in one run of the logger.
MaxEvents == 2
\* Largest buffer_size configured (the field admits 10..10000).
MaxBufferSize == 2
\* Largest number of registrations of the logger's handler on one page.
MaxSubs == 2
\* Largest number of filters in a chain.
MaxChain == 3
\* Largest number of action objects, the original and its copies.
MaxObjects == 3
\* Largest number of calls of execute_with_hooks on these objects.
MaxCalls == 2
\* Largest number of events built one after the other.
MaxBuilt == 2
\* Largest max_file_size, in serialized events (the field admits 1 MiB and more).
MaxFileSize == 4
\* Largest number of events in one batch handed to the flush.
MaxBatch == 2
\* Number of events written in one run of the log file.
MaxWritten == 5
\* Last second the clock reaches.
MaxClock == 1
\* Number of calls of add_event and flush_all on the LogBuffer.
MaxOps == 4
\* Largest number of events a logger receives before its shutdown.
MaxPending == 4
\* Largest number of filters of a logger.
MaxFilters == 2
\* Largest number of events appended to the buffer of a filtering logger.
MaxHandled == 2

\* ------------------------------------------------------------- constants
\* Cap of the exponential backoff, 8.0 s, in half seconds.
MaxDelay == 16

None == {}
Some(x) == {x}

Min(a, b) == IF a <= b THEN a ELSE b

RECURSIVE Pow2(_)
Pow2(n) == IF n = 0 THEN 1 ELSE 2 * Pow2(n - 1)

VARIABLES
    \* ---- PlaywrightAction.execute_with_hooks: one call
    retry_count,        \* self.retry_count
    validate_before,    \* self.validate_before
    a_pc,               \* position of the call
    attempt,            \* loop variable
    result,             \* local `result` (Optional)
    last_error,         \* local `last_error` (Optional)
    returned,           \* value returned to the caller (Optional)
    exec_state,         \* the coroutine of self.execute in the current attempt
    sleeps,             \* backoff sleeps performed so far, in half seconds
    execute_calls,      \* history: number of invocations of self.execute
    pre_raises,         \* history: attempts whose pre_execute raised
    hook_raised,        \* history: some pre_execute/post_execute raised
    success_attempts,   \* history: attempts on which execute returned success
    last_outcome,       \* history: how the latest attempt ended
    wait_before,        \* self.wait_before, in seconds
    wait_after,         \* self.wait_after, in seconds
    waits,              \* history: the delays slept in the current attempt
    \* ---- EventEmitter
    handlers_dict,      \* self._handlers: event type -> list of handlers
    handler_count,      \* self._handler_count
    \* ---- EventEmitter.emit: one call
    e_pc,               \* position of the call
    event_type,         \* event.event_type (Optional)
    handlers,           \* local `handlers`
    alias_live,         \* `handlers` is the list object still stored in _handlers
    tasks,              \* local `tasks`: the handler of each coroutine
    task_state,         \* pending / running / ok / raised, per coroutine
    summary,            \* the dict returned (Optional)
    registered_at_emit, \* history: the handlers registered when emit was called
    \* ---- ComposedAction.execute: one call, with the calls nested in it
    root,               \* the ComposedAction executed
    stack,              \* activations of ComposedAction.execute, innermost last
    pending,            \* outcome of a nested execute_with_hooks not yet received
    sub_state,          \* per leaf: notstarted / running / its outcome
    started_order,      \* history: the leaves in the order they were started
    step_outcomes,      \* history: outcomes of the steps of the root
    c_returned,         \* value returned by the root's execute (Optional)
    \* ---- ConditionalAction, run through its execute_with_hooks
    else_action,        \* self.else_action (Optional)
    k_retry,            \* self.retry_count of the ConditionalAction
    k_attempt,          \* attempt of the enclosing execute_with_hooks
    k_pc,               \* position of the call
    cond_state,         \* condition_action.execute_with_hooks in this execution
    then_state,         \* then_action.execute_with_hooks in this execution
    else_state,         \* else_action.execute_with_hooks in this execution
    k_result,           \* value the latest ConditionalAction.execute returned (Optional)
    \* ---- BrowserLogger and the pages it listens to
    auto_flush,         \* config.auto_flush
    max_size,           \* buffer.max_size = config.buffer_size
    session_id,         \* page.session_id, per page
    page_subs,          \* per page: registrations of _handle_event (per event type)
    is_logging,         \* self._is_logging
    output_file,        \* self._output_file is set
    active_pages,       \* keys of self._active_pages
    flush_task,         \* self._flush_task: none / sleeping / cancelling / failed
    buffer,             \* self.buffer._buffer
    sink,               \* the events written to the output path, in order
    inflight,           \* handler coroutines created by emit and not yet run
    n_emitted,          \* events emitted so far
    stop_pc,            \* position of the stop_logging call in progress
    stop_detached,      \* history: the latest stop_logging removed an active source
    started,            \* history: per page, start_logging not followed by stop_logging
    accepted,           \* history: events that passed the filters while logging was on
    isolated_error,     \* history: emit isolated the LoggingError of a failed flush
    last_op,            \* history: the logger operation that ran last
    \* ---- an EventFilter and the event it is asked about
    filter,             \* the filter's configuration
    event,              \* the event: its type, its URL's host, its selector
    verdict,            \* value the call of should_process returned (Optional)
    \* ---- a FilterChain
    chain,              \* self.filters, each filter by its verdict on the event
    chain_result,       \* value should_process returned for this chain (Optional)
    chain_raised,       \* the latest add_filter raised ValueError
    \* ---- action objects, their copies and the calls in progress on them
    objects,            \* the action objects, by identity: their fields
    origin,             \* history: per object, the object and helper that made it
    calls,              \* the calls of execute_with_hooks: their locals
    \* ---- an ActionResult
    made,               \* the result object made by a factory (Optional)
    \* ---- an event object
    ev,                 \* the event built: its class and its event_type (Optional)
    ev_error,           \* what the latest call on the event raised
    routed,             \* the event type whose handlers emit looked up (Optional)
    n_built,            \* calls of a constructor or of create_event so far
    \* ---- the log file and its rotation
    max_file_size,      \* config.max_file_size, in serialized events
    rotate_logs,        \* config.rotate_logs
    live,               \* the events in the file at output_path
    rotated,            \* per rotated name (a clock value): the events in that file (Optional)
    clock,              \* int(time.time())
    n_written,          \* events handed to _flush_buffer so far
    last_flush,         \* history: the latest flush, what it found and what it did (Optional)
    \* ---- a LogBuffer and the calls in progress on it
    b_max_size,         \* self.max_size
    b_buffer,           \* self._buffer
    b_lock,             \* self._lock: the task that holds it (Optional)
    b_tasks,            \* the calls of add_event and flush_all: position, locals, value returned
    n_appended,         \* events appended so far
    \* ---- the periodic task and the shutdown of a logger
    s_logging,          \* self._is_logging
    s_task,             \* the periodic task: sleeping / flushing / done
    s_cancelled,        \* cancel() was called on the periodic task
    s_job,              \* the executor job of the periodic task's file flush
    s_buffered,         \* number of events in the buffer
    s_sink,             \* the output file: open / closed
    s_stop,             \* position of _shutdown_logging
    s_on_file,          \* number of events written to the output file
    \* ---- the filters of a logger
    h_filters,          \* self.filters, each filter by its kind
    h_buffer,           \* the events appended to the buffer
    h_event,            \* the event handled last, None before the first
    h_evaluated         \* positions of the filters evaluated for it

actionVars == <<retry_count, validate_before, a_pc, attempt, result, last_error,
                returned, exec_state, sleeps, execute_calls, pre_raises,
                hook_raised, success_attempts, last_outcome, wait_before,
                wait_after, waits>>

emitVars == <<handlers_dict, handler_count, e_pc, event_type, handlers,
              alias_live, tasks, task_state, summary, registered_at_emit>>

composedVars == <<root, stack, pending, sub_state, started_order, step_outcomes,
                  c_returned>>

condVars == <<else_action, k_retry, k_attempt, k_pc, cond_state, then_state,
              else_state, k_result>>

loggerVars == <<auto_flush, max_size, session_id, page_subs, is_logging,
                output_file, active_pages, flush_task, buffer, sink,
                inflight, n_emitted, stop_pc, stop_detached, started, accepted,
                isolated_error, last_op>>

filterVars == <<filter, event, verdict>>

chainVars == <<chain, chain_result, chain_raised>>

objectVars == <<objects, origin, calls>>

resultVars == <<made>>


eventVars == <<ev, ev_error, routed, n_built>>


rotationVars == <<max_file_size, rotate_logs, live, rotated, clock, n_written,
                  last_flush>>


bufferVars == <<b_max_size, b_buffer, b_lock, b_tasks, n_appended>>


shutdownVars == <<s_logging, s_task, s_cancelled, s_job, s_buffered, s_sink, s_stop,
                  s_on_file>>


handleVars == <<h_filters, h_buffer, h_event, h_evaluated>>


vars == <<actionVars, emitVars, composedVars, condVars, loggerVars, filterVars,
          chainVars, objectVars, resultVars, eventVars, rotationVars, bufferVars,
          shutdownVars, handleVars>>

\* a step of one subsystem leaves the others alone
OnlyAction ==
    UNCHANGED <<emitVars, composedVars, condVars, loggerVars, filterVars, chainVars,
                objectVars, resultVars, eventVars, rotationVars, bufferVars,
                shutdownVars, handleVars>>
OnlyEmit ==
    UNCHANGED <<actionVars, composedVars, condVars, loggerVars, filterVars,
                chainVars, objectVars, resultVars, eventVars, rotationVars,
                bufferVars, shutdownVars, handleVars>>
OnlyComposed ==
    UNCHANGED <<actionVars, emitVars, condVars, loggerVars, filterVars, chainVars,
                objectVars, resultVars, eventVars, rotationVars, bufferVars,
                shutdownVars, handleVars>>
OnlyConditional ==
    UNCHANGED <<actionVars, emitVars, composedVars, loggerVars, filterVars,
                chainVars, objectVars, resultVars, eventVars, rotationVars,
                bufferVars, shutdownVars, handleVars>>
OnlyLogger ==
    UNCHANGED <<actionVars, emitVars, composedVars, condVars, filterVars, chainVars,
                objectVars, resultVars, eventVars, rotationVars, bufferVars,
                shutdownVars, handleVars>>
OnlyFilter ==
    UNCHANGED <<actionVars, emitVars, composedVars, condVars, loggerVars, chainVars,
                objectVars, resultVars, eventVars, rotationVars, bufferVars,
                shutdownVars, handleVars>>
OnlyChain ==
    UNCHANGED <<actionVars, emitVars, composedVars, condVars, loggerVars, filterVars,
                objectVars, resultVars, eventVars, rotationVars, bufferVars,
                shutdownVars, handleVars>>
OnlyObjects ==
    UNCHANGED <<actionVars, emitVars, composedVars, condVars, loggerVars, filterVars,
                chainVars, resultVars, eventVars, rotationVars, bufferVars,
                shutdownVars, handleVars>>
OnlyResults ==
    UNCHANGED <<actionVars, emitVars, composedVars, condVars, loggerVars, filterVars,
                chainVars, objectVars, eventVars, rotationVars, bufferVars,
                shutdownVars, handleVars>>
OnlyEvents ==
    UNCHANGED <<actionVars, emitVars, composedVars, condVars, loggerVars, filterVars,
                chainVars, objectVars, resultVars, rotationVars, bufferVars,
                shutdownVars, handleVars>>
OnlyRotation ==
    UNCHANGED <<actionVars, emitVars, composedVars, condVars, loggerVars, filterVars,
                chainVars, objectVars, resultVars, eventVars, bufferVars,
                shutdownVars, handleVars>>
OnlyBuffer ==
    UNCHANGED <<actionVars, emitVars, composedVars, condVars, loggerVars, filterVars,
                chainVars, objectVars, resultVars, eventVars, rotationVars,
                shutdownVars, handleVars>>
OnlyShutdown ==
    UNCHANGED <<actionVars, emitVars, composedVars, condVars, loggerVars, filterVars,
                chainVars, objectVars, resultVars, eventVars, rotationVars,
                bufferVars, handleVars>>
OnlyHandle ==
    UNCHANGED <<actionVars, emitVars, composedVars, condVars, loggerVars, filterVars,
                chainVars, objectVars, resultVars, eventVars, rotationVars,
                bufferVars, shutdownVars>>

\* ------------------------------------------------------- models/results.py
\* Mutant: the success factory reports the status FAILURE.
success_result_status_failure ==
    [success |-> TRUE, status |-> "failure", error |-> None,
     retry_count |-> 0, metadata |-> [retry_count |-> None, timeout_duration |-> FALSE]]

\* ActionResult.success_result
success_result ==
    [success |-> TRUE, status |-> "success", error |-> None,
     retry_count |-> 0, metadata |-> [retry_count |-> None, timeout_duration |-> FALSE]]

\* ActionResult.failure_result(error)
failure_result(error) ==
    [success |-> FALSE, status |-> "failure", error |-> Some(error),
     retry_count |-> 0, metadata |-> [retry_count |-> None, timeout_duration |-> FALSE]]

\* ActionResult.timeout_result(timeout_duration): the error text names the timeout
timeout_result ==
    [success |-> FALSE, status |-> "timeout",
     error |-> Some([kind |-> "timed_out", attempts |-> 0, last |-> None]),
     retry_count |-> 0, metadata |-> [retry_count |-> None, timeout_duration |-> TRUE]]

\* ActionResult.add_metadata(retry_count=n)
add_metadata_retry_count(r, n) ==
    [r EXCEPT !.metadata = [@ EXCEPT !.retry_count = Some(n)]]

\* The error text an execute() of a concrete action puts in its failure result.
ExecuteError == [kind |-> "execute", attempts |-> 0, last |-> None]
\* str(e) of an exception raised by a hook or by execute.
ExceptionError == [kind |-> "exception", attempts |-> 0, last |-> None]
\* f"Action failed after {n} attempts: {last_error}"
ExhaustedError(n, last) == [kind |-> "exhausted", attempts |-> n, last |-> last]

\* --------------------------------------------------------- actions/base.py
\* Mutant: the backoff is not capped.
calculate_retry_delay_uncapped(a) == Pow2(a)

\* PlaywrightAction._calculate_retry_delay: min(0.5 * 2**attempt, 8.0)
calculate_retry_delay(a) == Min(Pow2(a), MaxDelay)

\* Mutant: one attempt more than retry_count + 1 is allowed.
AttemptsRemainInclusive == attempt <= retry_count

\* Mutant: the retry test is off by one (one attempt too few).
AttemptsRemainOffByOne == attempt + 1 < retry_count

\* `attempt < self.retry_count`: another attempt follows the failed one
AttemptsRemain == attempt < retry_count

\* `if self.wait_before > 0: await asyncio.sleep(self.wait_before)` in
\* pre_execute (106-108), and the same for wait_after in post_execute
\* (122-124): the delays slept so far, after the hook `which` ran
slept(done, which, seconds) == IF seconds > 0 THEN done \cup {which} ELSE done

\* The delays an action is configured with, in seconds.
WaitArgs == {0, 1}

InitAction ==
    /\ retry_count \in 0..MaxRetry
    /\ validate_before \in BOOLEAN
    /\ a_pc = "attempt"
    /\ attempt = 0
    /\ result = None
    /\ last_error = None
    /\ returned = None
    /\ exec_state = "idle"
    /\ sleeps = <<>>
    /\ execute_calls = 0
    /\ pre_raises = 0
    /\ hook_raised = FALSE
    /\ success_attempts = <<>>
    /\ last_outcome = "none"
    /\ wait_before \in WaitArgs
    /\ wait_after \in WaitArgs
    /\ waits = {}

\* Mutant: post_execute is called after the try block instead of inside it.
TryBlockWithoutPost == {"pre_execute", "execute"}

\* The calls made inside the `try:` of one attempt (lines 151-192).
TryBlock == {"pre_execute", "execute", "post_execute"}

\* An exception raised outside the try leaves execute_with_hooks.
Propagate ==
    /\ a_pc' = "raised"
    /\ last_outcome' = "exception"
    /\ UNCHANGED <<last_error, returned>>

\* Mutant: a timeout is handled by the generic `except Exception` branch.
OnTimeoutErrorAsFailure ==
    /\ last_outcome' = "timeout"
    /\ last_error' = Some(ExceptionError)
    /\ IF AttemptsRemain
       THEN /\ a_pc' = "backoff"
            /\ returned' = returned
       ELSE /\ a_pc' = "returned"
            /\ returned' = Some(add_metadata_retry_count(
                   failure_result(ExhaustedError(retry_count + 1, Some(ExceptionError))),
                   retry_count))

\* except asyncio.TimeoutError (lines 194-201)
OnTimeoutError ==
    /\ last_outcome' = "timeout"
    /\ IF AttemptsRemain
       THEN /\ a_pc' = "backoff"
            /\ returned' = returned
       ELSE /\ a_pc' = "returned"
            /\ returned' = Some(timeout_result)
    /\ UNCHANGED last_error

\* except Exception (lines 203-216) and the return after the loop (219-225)
OnException ==
    /\ last_outcome' = "exception"
    /\ last_error' = Some(ExceptionError)
    /\ IF AttemptsRemain
       THEN /\ a_pc' = "backoff"
            /\ returned' = returned
       ELSE /\ a_pc' = "returned"
            /\ returned' = Some(add_metadata_retry_count(
                   failure_result(ExhaustedError(retry_count + 1, Some(ExceptionError))),
                   retry_count))

\* An Exception / an asyncio.TimeoutError raised by the call `site`
Raise(site) == IF site \in TryBlock THEN OnException ELSE Propagate
RaiseTimeoutError(site) == IF site \in TryBlock THEN OnTimeoutError ELSE Propagate

\* if self.validate_before: await self.pre_execute(page)   (153-154)
\* o: pre_execute returns, raises an Exception, or raises asyncio.TimeoutError
PreExecute(o) ==
    /\ a_pc = "attempt"
    /\ validate_before
    /\ CASE o = "ok" ->
              /\ a_pc' = "execute"
              /\ waits' = slept(waits, "before", wait_before)
              /\ UNCHANGED <<last_error, returned, last_outcome, pre_raises, hook_raised>>
         [] o = "raise" ->
              /\ Raise("pre_execute")
              /\ pre_raises' = pre_raises + 1
              /\ hook_raised' = TRUE
              /\ UNCHANGED waits
         [] o = "timeout_error" ->
              /\ RaiseTimeoutError("pre_execute")
              /\ pre_raises' = pre_raises + 1
              /\ hook_raised' = TRUE
              /\ UNCHANGED waits
    /\ UNCHANGED <<wait_before, wait_after, retry_count, validate_before, attempt, result, exec_state, sleeps,
                   execute_calls, success_attempts>>
    /\ OnlyAction

\* validate_before is false: the attempt goes straight to execute
SkipPreExecute ==
    /\ a_pc = "attempt"
    /\ ~validate_before
    /\ a_pc' = "execute"
    /\ UNCHANGED <<wait_before, wait_after, retry_count, validate_before, attempt, result, last_error, returned,
                   exec_state, sleeps, execute_calls, pre_raises, hook_raised,
                   success_attempts, last_outcome>>
    /\ UNCHANGED waits
    /\ OnlyAction

\* asyncio.wait_for(self.execute(page), timeout=self.timeout): execute is invoked (159)
ExecuteStart ==
    /\ a_pc = "execute"
    /\ a_pc' = "awaiting"
    /\ exec_state' = "running"
    /\ execute_calls' = execute_calls + 1
    /\ UNCHANGED <<wait_before, wait_after, retry_count, validate_before, attempt, result, last_error, returned,
                   sleeps, pre_raises, hook_raised, success_attempts, last_outcome>>
    /\ UNCHANGED waits
    /\ OnlyAction

\* execute returns r within the timeout; the result is stamped (162-167)
ExecuteReturn(r) ==
    /\ a_pc = "awaiting"
    /\ exec_state' = "done"
    /\ result' = Some([r EXCEPT !.retry_count = attempt])
    /\ success_attempts' = IF r.success THEN Append(success_attempts, attempt)
                           ELSE success_attempts
    /\ a_pc' = "post"
    /\ UNCHANGED <<wait_before, wait_after, retry_count, validate_before, attempt, last_error, returned, sleeps,
                   execute_calls, pre_raises, hook_raised, last_outcome>>
    /\ UNCHANGED waits
    /\ OnlyAction

\* execute raises an Exception within the timeout
ExecuteRaise ==
    /\ a_pc = "awaiting"
    /\ exec_state' = "done"
    /\ Raise("execute")
    /\ UNCHANGED <<wait_before, wait_after, retry_count, validate_before, attempt, result, sleeps, execute_calls,
                   pre_raises, hook_raised, success_attempts>>
    /\ UNCHANGED waits
    /\ OnlyAction

\* the timeout expires first: wait_for cancels the execution and raises TimeoutError
ExecuteTimeout ==
    /\ a_pc = "awaiting"
    /\ exec_state' = "cancelled"
    /\ RaiseTimeoutError("execute")
    /\ UNCHANGED <<wait_before, wait_after, retry_count, validate_before, attempt, result, sleeps, execute_calls,
                   pre_raises, hook_raised, success_attempts>>
    /\ UNCHANGED waits
    /\ OnlyAction

\* Mutant: a success returns only when no attempt is left.
ReturnsOnSuccessLastOnly(r) == r.success /\ ~AttemptsRemain

\* `if result.success: return result` (173-174)
ReturnsOnSuccess(r) == r.success

\* after post_execute returned: lines 172-192
AfterPostExecute ==
    LET r == CHOOSE x \in result : TRUE IN
    IF ReturnsOnSuccess(r)
    THEN /\ a_pc' = "returned"
         /\ returned' = Some(r)
         /\ last_outcome' = "success"
         /\ UNCHANGED last_error
    ELSE /\ last_error' = (IF r.error # None THEN r.error ELSE Some(ExecuteError))
         /\ last_outcome' = "failure"
         /\ IF AttemptsRemain
            THEN /\ a_pc' = "backoff"
                 /\ returned' = returned
            ELSE /\ a_pc' = "returned"
                 /\ returned' = Some([r EXCEPT !.retry_count = attempt])

\* await self.post_execute(page, result)   (170)
PostExecute(o) ==
    /\ a_pc = "post"
    /\ CASE o = "ok" ->
              /\ AfterPostExecute
              /\ waits' = slept(waits, "after", wait_after)
              /\ UNCHANGED hook_raised
         [] o = "raise" ->
              /\ Raise("post_execute")
              /\ hook_raised' = TRUE
              /\ UNCHANGED waits
         [] o = "timeout_error" ->
              /\ RaiseTimeoutError("post_execute")
              /\ hook_raised' = TRUE
              /\ UNCHANGED waits
    /\ UNCHANGED <<wait_before, wait_after, retry_count, validate_before, attempt, result, exec_state, sleeps,
                   execute_calls, pre_raises, success_attempts>>
    /\ OnlyAction

\* await asyncio.sleep(self._calculate_retry_delay(attempt)); continue
Backoff ==
    /\ a_pc = "backoff"
    /\ sleeps' = Append(sleeps, calculate_retry_delay(attempt))
    /\ attempt' = attempt + 1
    /\ a_pc' = "attempt"
    /\ exec_state' = "idle"
    /\ result' = result
    /\ waits' = {}
    /\ UNCHANGED <<wait_before, wait_after, retry_count, validate_before, last_error, returned, execute_calls,
                   pre_raises, hook_raised, success_attempts, last_outcome>>
    /\ OnlyAction

HookOutcomes == {"ok", "raise", "timeout_error"}
ExecuteResults == {success_result, failure_result(ExecuteError)}

NextAction ==
    \/ \E o \in HookOutcomes : PreExecute(o)
    \/ SkipPreExecute
    \/ ExecuteStart
    \/ \E r \in ExecuteResults : ExecuteReturn(r)
    \/ ExecuteRaise
    \/ ExecuteTimeout
    \/ \E o \in HookOutcomes : PostExecute(o)
    \/ Backoff


\* -------------------------------------------- claims on execute_with_hooks
TheReturned == CHOOSE r \in returned : TRUE

\* C1: a call of execute_with_hooks never ends by propagating an exception,
\* whichever of pre_execute, execute and post_execute raise or time out on
\* whichever attempts: a call that is over has returned an ActionResult, a call
\* that is not over can still take a step, and when the last attempt failed
\* the failure is carried by the returned result (success = false).
C1_NeverPropagates ==
    /\ a_pc # "raised"
    /\ (a_pc = "returned") = (returned # None)
    /\ a_pc # "returned" => ENABLED NextAction
    /\ a_pc = "returned" =>
          /\ TheReturned.status \in {"success", "failure", "timeout"}
          /\ last_outcome # "success" => /\ ~TheReturned.success
                                         /\ TheReturned.error # None
                                         /\ attempt = retry_count

\* C1 witness: every attempt of a call with retries raised, in a hook on the
\* last one, and the call returned.
C1_Witness ==
    /\ a_pc = "returned"
    /\ retry_count >= 2
    /\ hook_raised
    /\ last_outcome = "exception"
    /\ execute_calls >= 1
    /\ success_attempts # <<>>

\* C2 (as claimed): when every attempt fails, execute has been invoked exactly
\* retry_count + 1 times and the returned result is not a success.
C2_ExecuteInvokedOnEveryAttempt ==
    (a_pc = "returned" /\ last_outcome # "success") =>
        /\ execute_calls = retry_count + 1
        /\ ~TheReturned.success

\* C2 (amended): when every attempt fails, exactly retry_count + 1 attempts were
\* made, execute was invoked once on each attempt whose pre_execute did not
\* raise (retry_count + 1 times when pre_execute never raised), and the
\* returned result is not a success.
C2_AttemptsExhausted ==
    (a_pc = "returned" /\ last_outcome # "success") =>
        /\ attempt = retry_count
        /\ Len(sleeps) = retry_count
        /\ execute_calls = retry_count + 1 - pre_raises
        /\ ~hook_raised => execute_calls = retry_count + 1
        /\ ~TheReturned.success

\* C2 witness: 3 retries, all four attempts failed with execute invoked on each.
C2_Witness ==
    /\ a_pc = "returned"
    /\ last_outcome # "success"
    /\ retry_count = 3
    /\ execute_calls = 4
    /\ pre_raises = 0

\* C3: when no hook raises and execute returns a success on attempt k, the
\* attempts before k having failed, then from that moment on the call makes no
\* further attempt and no further backoff sleep: execute has been invoked
\* k + 1 times, k sleeps were made, and the call returns that success with
\* retry_count = k.
C3_FirstSuccessWins ==
    (success_attempts # <<>> /\ ~hook_raised) =>
        LET k == success_attempts[1] IN
        /\ Len(success_attempts) = 1
        /\ attempt = k
        /\ execute_calls = k + 1
        /\ Len(sleeps) = k
        /\ a_pc \in {"post", "returned"}
        /\ a_pc = "post" => result = Some([success_result EXCEPT !.retry_count = k])
        /\ a_pc = "returned" =>
              returned = Some([success_result EXCEPT !.retry_count = k])

\* C3 witness: fails on attempts 0 and 1, succeeds on attempt 2 of 4.
C3_Witness ==
    /\ a_pc = "returned"
    /\ ~hook_raised
    /\ retry_count = 3
    /\ success_attempts = <<2>>
    /\ Len(sleeps) = 2

\* While the cancelled execution of a timed-out attempt is the latest one:
C4_TimedOutAttempt ==
    exec_state = "cancelled" =>
        /\ last_outcome = "timeout"
        /\ a_pc \in {"backoff", "returned"}
        /\ a_pc = "backoff" <=> attempt < retry_count
        /\ a_pc = "backoff" => returned = None
        /\ a_pc = "returned" =>
              /\ TheReturned.status = "timeout"
              /\ ~TheReturned.success
              /\ TheReturned.metadata.timeout_duration

\* the step that follows a timed-out attempt with attempts left is the backoff
\* sleep of that attempt, which leads to the start of the next attempt
C4_NextAttemptStep ==
    (exec_state = "cancelled" /\ a_pc = "backoff") =>
        /\ attempt' = attempt + 1
        /\ a_pc' = "attempt"
        /\ sleeps' = Append(sleeps, calculate_retry_delay(attempt))
        /\ returned' = None

\* C4: when the timeout of an attempt expires, that attempt's execution is
\* cancelled (not awaited to its end); with attempts left the call backs off
\* and starts the next attempt, and on the final attempt it returns a result
\* of status TIMEOUT with success = false, not a FAILURE.
C4_TimeoutPerAttempt == [](C4_TimedOutAttempt) /\ [][C4_NextAttemptStep]_vars

\* C4 witness: an attempt timed out, the next one was started, and the final
\* attempt timed out as well.
C4_Witness ==
    /\ a_pc = "returned"
    /\ exec_state = "cancelled"
    /\ retry_count >= 1
    /\ execute_calls = retry_count + 1
    /\ TheReturned.status = "timeout"

\* C18: when every attempt has failed, by a failure result or by raising,
\* the error of the returned result names the total number of attempts,
\* retry_count + 1.
C18_ErrorNamesAttempts ==
    (a_pc = "returned" /\ last_outcome \in {"failure", "exception"}) =>
        \E e \in TheReturned.error :
            e.kind = "exhausted" /\ e.attempts = retry_count + 1

\* the backoff after failed attempt i, in half seconds: 0.5, 1, 2, 4 seconds
\* and 8 seconds from attempt 4 on
ExpectedDelay(i) ==
    CASE i = 0 -> 1
      [] i = 1 -> 2
      [] i = 2 -> 4
      [] i = 3 -> 8
      [] OTHER -> 16

\* C19: the sleep after failed attempt i lasts min(0.5 * 2^i, 8.0) seconds
\* whatever made the attempt fail, one sleep follows each failed attempt
\* but the final one, and none follows the final attempt.
C19_BackoffState ==
    /\ \A i \in 1..Len(sleeps) : sleeps[i] = ExpectedDelay(i - 1)
    /\ Len(sleeps) <= retry_count
    /\ a_pc = "backoff" => /\ last_outcome \in {"failure", "timeout", "exception"}
                           /\ attempt < retry_count
                           /\ Len(sleeps) = attempt
    /\ a_pc = "returned" => Len(sleeps) = attempt

C19_BackoffStep ==
    a_pc = "backoff" => sleeps' = Append(sleeps, ExpectedDelay(attempt))

C29_ExecuteStep ==
    execute_calls' = execute_calls + 1 => success_attempts = <<>>

C29_NoAttemptAfterSuccess == [][C29_ExecuteStep]_vars

\* C30: whatever the terminal outcome (success, exhausted failure result,
\* timeout of the last attempt, exhausted exception), the retry_count field
\* of the result returned is the index of the last attempt made.
C30_RetryCountIsLastAttempt ==
    a_pc = "returned" => TheReturned.retry_count = attempt

\* C31: with nonzero wait_before / wait_after every attempt, whatever its
\* outcome and whatever validate_before, has slept wait_before when execute
\* is invoked, and has slept wait_after when the attempt that invoked
\* execute ends.
C31_WaitsStep ==
    /\ (execute_calls' = execute_calls + 1 /\ wait_before > 0) => "before" \in waits
    /\ (/\ a_pc \in {"awaiting", "post"}
        /\ a_pc' \in {"backoff", "returned"}
        /\ wait_after > 0) => "after" \in waits'

C31_DelaysOnEveryAttempt == [][C31_WaitsStep]_vars

\* ===================================================== events/handlers.py
\* The handlers and event types the bus is exercised with.
Handlers == {"h1", "h2"}
EventTypes == {"interaction", "navigation"}

RECURSIVE Count(_, _)
\* number of occurrences of x in the list s
Count(s, x) ==
    IF s = <<>> THEN 0
    ELSE (IF Head(s) = x THEN 1 ELSE 0) + Count(Tail(s), x)

RECURSIVE RemoveFirst(_, _)
\* list.remove(x): the list without its first occurrence of x
RemoveFirst(s, x) ==
    IF s = <<>> THEN <<>>
    ELSE IF Head(s) = x THEN Tail(s)
    ELSE <<Head(s)>> \o RemoveFirst(Tail(s), x)

\* Mutant: the entry of t is emptied and kept.
DelKeyKeepsEmpty(f, t) == [x \in DOMAIN f |-> IF x = t THEN <<>> ELSE f[x]]

\* dict without the key t
DelKey(f, t) == [x \in (DOMAIN f) \ {t} |-> f[x]]
\* dict with f[t] = v
SetKey(f, t, v) == [x \in (DOMAIN f) \cup {t} |-> IF x = t THEN v ELSE f[x]]
EmptyDict == [x \in {} |-> <<>>]

\* The summary emit returns.
Summary(t, called, succeeded, failed, errors) ==
    [event_type |-> t, handlers_called |-> called, handlers_succeeded |-> succeeded,
     handlers_failed |-> failed, errors |-> errors]

\* EventEmitter.__init__
InitEmit ==
    /\ handlers_dict = EmptyDict
    /\ handler_count = 0
    /\ e_pc = "idle"
    /\ event_type = None
    /\ handlers = <<>>
    /\ alias_live = FALSE
    /\ tasks = <<>>
    /\ task_state = <<>>
    /\ summary = None
    /\ registered_at_emit = <<>>

\* whether the local `handlers` of the emit in progress is the list object
\* stored under t
IsAliased(t) == alias_live /\ event_type = Some(t)

\* EventEmitter.subscribe(event_type, handler)
subscribe(t, h) ==
    /\ handler_count < MaxHandlers
    /\ LET old == IF t \in DOMAIN handlers_dict THEN handlers_dict[t] ELSE <<>>
       IN  /\ handlers_dict' = SetKey(handlers_dict, t, Append(old, h))
           /\ handlers' = IF IsAliased(t) THEN Append(old, h) ELSE handlers
    /\ handler_count' = handler_count + 1
    /\ UNCHANGED <<e_pc, event_type, alias_live, tasks, task_state, summary,
                   registered_at_emit>>
    /\ OnlyEmit

\* the value EventEmitter.unsubscribe(event_type, handler) returns
unsubscribe_returns(t, h) ==
    t \in DOMAIN handlers_dict /\ Count(handlers_dict[t], h) > 0

\* EventEmitter.unsubscribe(event_type, handler)
unsubscribe(t, h) ==
    /\ IF unsubscribe_returns(t, h)
       THEN LET new == RemoveFirst(handlers_dict[t], h) IN
            /\ handlers_dict' = IF new = <<>> THEN DelKey(handlers_dict, t)
                                ELSE SetKey(handlers_dict, t, new)
            /\ handler_count' = handler_count - 1
            /\ handlers' = IF IsAliased(t) THEN new ELSE handlers
            /\ alias_live' = IF IsAliased(t) /\ new = <<>> THEN FALSE ELSE alias_live
       ELSE UNCHANGED <<handlers_dict, handler_count, handlers, alias_live>>
    /\ UNCHANGED <<e_pc, event_type, tasks, task_state, summary, registered_at_emit>>
    /\ OnlyEmit

\* the value EventEmitter.clear_handlers(event_type) returns
clear_handlers_returns(t) ==
    IF t \in DOMAIN handlers_dict THEN Len(handlers_dict[t]) ELSE 0

\* EventEmitter.clear_handlers(event_type)
clear_handlers(t) ==
    /\ IF t \in DOMAIN handlers_dict
       THEN /\ handlers_dict' = DelKey(handlers_dict, t)
            /\ handler_count' = handler_count - Len(handlers_dict[t])
            /\ alias_live' = IF IsAliased(t) THEN FALSE ELSE alias_live
       ELSE UNCHANGED <<handlers_dict, handler_count, alias_live>>
    /\ UNCHANGED <<e_pc, event_type, handlers, tasks, task_state, summary,
                   registered_at_emit>>
    /\ OnlyEmit

\* EventEmitter.clear_handlers(None)
clear_all_handlers ==
    /\ handlers_dict' = EmptyDict
    /\ handler_count' = 0
    /\ alias_live' = FALSE
    /\ UNCHANGED <<e_pc, event_type, handlers, tasks, task_state, summary,
                   registered_at_emit>>
    /\ OnlyEmit

\* the coroutines created for gather, one per handler of the list (174-177)
CreateTasks(hs) == hs

\* Mutant: gather(*tasks) without return_exceptions: the first exception of a
\* child is raised at once, the other children keep running.
GatherRaisesFirst(states) ==
    IF \E i \in 1..Len(states) : states[i] = "raised" THEN "raise"
    ELSE IF \A i \in 1..Len(states) : states[i] = "ok" THEN "results"
    ELSE "pending"

\* Mutant: the handlers are scheduled and not awaited.
GatherNoWait(states) == "results"

\* asyncio.gather(*tasks, return_exceptions=True): completes when every child
\* has finished, with the exceptions among the results (line 180)
Gather(states) ==
    IF \A i \in 1..Len(states) : states[i] \in {"ok", "raised"} THEN "results"
    ELSE "pending"

\* emit(event), up to the await of gather (161-180)
EmitCall(t) ==
    /\ e_pc \in {"idle", "returned"}
    /\ event_type' = Some(t)
    /\ LET hs == IF t \in DOMAIN handlers_dict THEN handlers_dict[t] ELSE <<>> IN
       /\ handlers' = hs
       /\ alias_live' = (t \in DOMAIN handlers_dict)
       /\ registered_at_emit' = hs
       /\ IF hs = <<>>
          THEN /\ e_pc' = "returned"
               /\ summary' = Some(Summary(t, 0, 0, 0, <<>>))
               /\ tasks' = <<>>
               /\ task_state' = <<>>
          ELSE /\ e_pc' = "gathering"
               /\ summary' = None
               /\ tasks' = CreateTasks(hs)
               /\ task_state' = [i \in 1..Len(CreateTasks(hs)) |-> "pending"]
    /\ UNCHANGED <<handlers_dict, handler_count>>
    /\ OnlyEmit

\* the event loop starts task i (tasks start in the order they were created):
\* _safe_handler_call awaits handler(event)
HandlerStart(i) ==
    /\ i \in 1..Len(tasks)
    /\ task_state[i] = "pending"
    /\ \A j \in 1..(i - 1) : task_state[j] # "pending"
    /\ task_state' = [task_state EXCEPT ![i] = "running"]
    /\ UNCHANGED <<handlers_dict, handler_count, e_pc, event_type, handlers,
                   alias_live, tasks, summary, registered_at_emit>>
    /\ OnlyEmit

\* handler i returns, or raises an Exception that _safe_handler_call re-raises
HandlerFinish(i, o) ==
    /\ i \in 1..Len(tasks)
    /\ task_state[i] = "running"
    /\ task_state' = [task_state EXCEPT ![i] = o]
    /\ UNCHANGED <<handlers_dict, handler_count, e_pc, event_type, handlers,
                   alias_live, tasks, summary, registered_at_emit>>
    /\ OnlyEmit

\* the indexes (0-based) of the results that are exceptions, in order (187-196)
RECURSIVE ErrorIndexes(_, _)
ErrorIndexes(states, i) ==
    IF i > Len(states) THEN <<>>
    ELSE (IF states[i] = "raised" THEN <<i - 1>> ELSE <<>>)
         \o ErrorIndexes(states, i + 1)

\* gather is over: the results are counted and the summary returned (180-209)
EmitReturn ==
    /\ e_pc = "gathering"
    /\ Gather(task_state) # "pending"
    /\ IF Gather(task_state) = "results"
       THEN LET errors == ErrorIndexes(task_state, 1) IN
            /\ e_pc' = "returned"
            /\ summary' = Some(Summary(CHOOSE t \in event_type : TRUE,
                                       Len(handlers),
                                       Len(task_state) - Len(errors),
                                       Len(errors), errors))
       ELSE /\ e_pc' = "raised"
            /\ summary' = None
    /\ UNCHANGED <<handlers_dict, handler_count, event_type, handlers,
                   alias_live, tasks, task_state, registered_at_emit>>
    /\ OnlyEmit

NextEmit ==
    \/ \E t \in EventTypes, h \in Handlers : subscribe(t, h)
    \/ \E t \in EventTypes, h \in Handlers : unsubscribe(t, h)
    \/ \E t \in EventTypes : clear_handlers(t)
    \/ clear_all_handlers
    \/ \E t \in EventTypes : EmitCall(t)
    \/ \E i \in 1..MaxHandlers : HandlerStart(i)
    \/ \E i \in 1..MaxHandlers, o \in {"ok", "raised"} : HandlerFinish(i, o)
    \/ EmitReturn

\* ------------------------------------------------------- claims on emit
TheSummary == CHOOSE x \in summary : TRUE

\* invocations of handler h in the emission: its coroutines that were started
Calls(h) == Cardinality({i \in 1..Len(tasks) : tasks[i] = h /\ task_state[i] # "pending"})

\* C5: emit never raises; when it returns, every handler that was registered
\* for the event's type when emit was called has been invoked exactly once per
\* registration, each has ended by returning or raising on its own (a raise of
\* one changes nothing for another), and the summary counts as handlers_failed
\* the handlers that raised and as handlers_succeeded those that did not.
C5_EmitIsolation ==
    /\ e_pc # "raised"
    /\ (e_pc = "returned") = (summary # None)
    /\ e_pc = "returned" =>
          /\ \A h \in Handlers : Calls(h) = Count(registered_at_emit, h)
          /\ Len(tasks) = Len(registered_at_emit)
          /\ \A i \in 1..Len(tasks) : task_state[i] \in {"ok", "raised"}
          /\ TheSummary.handlers_failed =
                Cardinality({i \in 1..Len(tasks) : task_state[i] = "raised"})
          /\ TheSummary.handlers_succeeded =
                Cardinality({i \in 1..Len(tasks) : task_state[i] = "ok"})
          /\ Len(TheSummary.errors) = TheSummary.handlers_failed
          /\ \A k \in 1..Len(TheSummary.errors) :
                task_state[TheSummary.errors[k] + 1] = "raised"

\* C5 witness: two handlers of one type, the first raised, the second ran.
C5_Witness ==
    /\ e_pc = "returned"
    /\ registered_at_emit = <<"h1", "h2">>
    /\ task_state = <<"raised", "ok">>
    /\ TheSummary.handlers_failed = 1
    /\ TheSummary.handlers_succeeded = 1

\* C6: once an emit call is over, no handler it invoked is still pending or
\* running: every one of them has returned or raised.
C6_EmitAwaitsAllHandlers ==
    e_pc \in {"returned", "raised"} =>
        \A i \in 1..Len(tasks) : task_state[i] \in {"ok", "raised"}

\* C6 witness: an emission to two handlers, both of which raised, returned.
C6_Witness ==
    /\ e_pc = "returned"
    /\ Len(tasks) = 2
    /\ \A i \in 1..2 : task_state[i] = "raised"

\* the handlers registered over all event types
RECURSIVE TotalHandlers(_, _)
TotalHandlers(d, types) ==
    IF types = {} THEN 0
    ELSE LET t == CHOOSE x \in types : TRUE IN
         Len(d[t]) + TotalHandlers(d, types \ {t})

\* a call unsubscribe(t, h) that finds no match changes nothing; one that
\* removes the last handler of t removes t from the registered types
C25_UnsubscribeStep ==
    \A t \in EventTypes, h \in Handlers :
        unsubscribe(t, h) =>
            IF unsubscribe_returns(t, h)
            THEN /\ handler_count' = handler_count - 1
                 /\ Len(handlers_dict[t]) = 1 => t \notin DOMAIN handlers_dict'
            ELSE UNCHANGED <<handlers_dict, handler_count>>

\* C25: after any sequence of subscribe, unsubscribe and clear_handlers
\* calls, get_handler_count() is the number of handlers registered over all
\* event types and no event type is registered with zero handlers; an
\* unsubscribe without a match changes nothing.
C25_HandlerCountExact ==
    /\ [](/\ handler_count = TotalHandlers(handlers_dict, DOMAIN handlers_dict)
          /\ \A t \in DOMAIN handlers_dict : handlers_dict[t] # <<>>)
    /\ [][C25_UnsubscribeStep]_vars

\* the only handler of a type was unsubscribed while an emission to it was
\* in progress: the type is gone and the count is zero
C25_Witness ==
    /\ e_pc = "gathering"
    /\ registered_at_emit = <<"h1">>
    /\ handlers = <<>>
    /\ handlers_dict = EmptyDict
    /\ handler_count = 0

\* C34: in every summary emit returns, handlers_called is the number of
\* handlers invoked for the emission and equals handlers_succeeded +
\* handlers_failed, and errors has handlers_failed entries, also when
\* handlers of the event's type are subscribed or unsubscribed while the
\* emission is in progress.
C34_SummaryCountsAgree ==
    summary # None =>
        /\ TheSummary.handlers_called =
               TheSummary.handlers_succeeded + TheSummary.handlers_failed
        /\ TheSummary.handlers_called =
               Cardinality({i \in 1..Len(tasks) : task_state[i] # "pending"})
        /\ Len(TheSummary.errors) = TheSummary.handlers_failed

\* ======================================= actions/base.py: ComposedAction
\* A sub-action that is not itself a composition; id tells the leaves apart.
Leaf(id) ==
    [kind |-> "leaf", id |-> id, actions |-> <<>>,
     stop_on_failure |-> TRUE, collect_results |-> TRUE]

\* ComposedAction(actions=..., stop_on_failure=..., collect_results=...)
ComposedAction(actions, stop, collect) ==
    [kind |-> "composed", id |-> 0, actions |-> actions,
     stop_on_failure |-> stop, collect_results |-> collect]

\* PlaywrightAction.compose_with / then: ComposedAction(actions=[self, other])
compose_with(self, other) == ComposedAction(<<self, other>>, TRUE, TRUE)

\* [Leaf(1), ..., Leaf(n)]
FlatActions(n) == [k \in 1..n |-> Leaf(k)]

RECURSIVE Chain(_)
\* Leaf(1).then(Leaf(2)).then(Leaf(3))...then(Leaf(m))
Chain(m) ==
    IF m = 2 THEN compose_with(Leaf(1), Leaf(2))
    ELSE compose_with(Chain(m - 1), Leaf(m))

\* [ComposedAction([Leaf(1..k)], inner_stop), Leaf(k+1), ..., Leaf(n)]
Nested(k, n, inner_stop, outer_stop) ==
    ComposedAction(<<ComposedAction(FlatActions(k), inner_stop, TRUE)>>
                       \o [j \in 1..(n - k) |-> Leaf(k + j)],
                   outer_stop, TRUE)

RECURSIVE LeavesOf(_)
\* the ids of the leaves under a node
LeavesOf(node) ==
    IF node.kind = "leaf" THEN {node.id}
    ELSE UNION {LeavesOf(node.actions[k]) : k \in 1..Len(node.actions)}

\* ActionResult.failure_result(...).add_metadata(completed_steps, failed_step,
\* total_steps, results)   (376-385 and 406-411)
composed_failure_result(why, completed, failed, total, res) ==
    [success |-> FALSE, status |-> "failure",
     error |-> Some([kind |-> why, step |-> failed]),
     data |-> [completed_steps |-> None, total_steps |-> None, all_succeeded |-> None],
     metadata |-> [completed_steps |-> Some(completed), failed_step |-> Some(failed),
                   total_steps |-> Some(total), results |-> res]]

\* ActionResult.success_result(data={completed_steps, total_steps, all_succeeded})
\*     .add_metadata(results, failed_step)   (416-419)
composed_success_result(total, all_ok, res, failed) ==
    [success |-> TRUE, status |-> "success", error |-> None,
     data |-> [completed_steps |-> Some(total), total_steps |-> Some(total),
               all_succeeded |-> Some(all_ok)],
     metadata |-> [completed_steps |-> None, failed_step |-> failed,
                   total_steps |-> None, results |-> res]]

\* The activation of one ComposedAction.execute: locals of lines 347-350.
NewFrame(node) ==
    [node |-> node, i |-> 0, failed_at_step |-> None, results |-> <<>>,
     awaiting |-> FALSE]

Top == stack[Len(stack)]
Pop == SubSeq(stack, 1, Len(stack) - 1)

\* Mutant: the list is walked from its end.
StepActionReversed(node, i) == node.actions[Len(node.actions) - i]

\* `for i, action in enumerate(self.actions)`: the action of step i (0-based)
StepAction(node, i) == node.actions[i + 1]

\* Mutant: the number of completed steps counts the failed one.
CompletedStepsInclusive(i) == i + 1

\* completed_steps=i (381, 407)
CompletedSteps(i) == i

\* Mutant: stop_on_failure is not consulted.
StopsAtFailureAlways(node) == TRUE

\* `if self.stop_on_failure:` (371, 405)
StopsAtFailure(node) == node.stop_on_failure

\* Mutant: all_succeeded is reported whatever happened.
AllSucceededAlways(failed) == TRUE

\* success = failed_at_step is None   (414)
AllSucceeded(failed) == failed = None

\* One ComposedAction, built directly or by chaining.
InitComposed ==
    /\ root \in {ComposedAction(FlatActions(n), stop, collect) :
                    n \in 1..MaxSteps, stop \in BOOLEAN, collect \in BOOLEAN}
                \cup {Chain(m) : m \in 2..MaxSteps}
                \cup {Nested(k, n, s1, s2) :
                         k \in 1..(MaxSteps - 1), n \in 2..MaxSteps,
                         s1 \in BOOLEAN, s2 \in BOOLEAN}
    /\ stack = <<NewFrame(root)>>
    /\ pending = None
    /\ sub_state = [id \in 1..MaxSteps |-> "notstarted"]
    /\ started_order = <<>>
    /\ step_outcomes = <<>>
    /\ c_returned = None

\* The body of the loop after `await action.execute_with_hooks(page)` has
\* ended with outcome o ("success"/"failure": the result's success flag;
\* "raise": an exception), and the return after the loop (356-419).
\* The frame on top of the stack is continued or replaced by its result.
AfterStep(o) ==
    LET f == Top
        n == Len(f.node.actions)
        step == f.i + 1
        results1 == IF f.node.collect_results
                    THEN Append(f.results, [step |-> step, success |-> (o = "success")])
                    ELSE f.results
        res == IF f.node.collect_results THEN Some(results1) ELSE None
        failed1 == IF o = "failure" THEN Some(step) ELSE f.failed_at_step
        stops == o # "success" /\ StopsAtFailure(f.node)
        ret == IF stops
               THEN composed_failure_result(
                        IF o = "failure" THEN "failed_at_step" ELSE "exception_in_step",
                        CompletedSteps(f.i), step, n, res)
               ELSE composed_success_result(n, AllSucceeded(failed1), res, failed1)
        over == stops \/ step = n
    IN  /\ step_outcomes' = IF Len(stack) = 1 THEN Append(step_outcomes, o)
                            ELSE step_outcomes
        /\ IF over
           THEN /\ stack' = Pop
                /\ IF Len(stack) = 1
                   THEN /\ c_returned' = Some(ret)
                        /\ pending' = None
                   ELSE /\ pending' = Some(IF ret.success THEN "success" ELSE "failure")
                        /\ UNCHANGED c_returned
           ELSE /\ stack' = [stack EXCEPT ![Len(stack)] =
                                [f EXCEPT !.i = step, !.failed_at_step = failed1,
                                          !.results = results1, !.awaiting = FALSE]]
                /\ pending' = None
                /\ UNCHANGED c_returned

\* the loop reaches `await action.execute_with_hooks(page)` for a leaf (354)
StepBegin ==
    /\ stack # <<>>
    /\ pending = None
    /\ ~Top.awaiting
    /\ LET a == StepAction(Top.node, Top.i) IN
       /\ a.kind = "leaf"
       /\ sub_state' = [sub_state EXCEPT ![a.id] = "running"]
       /\ started_order' = Append(started_order, a.id)
    /\ stack' = [stack EXCEPT ![Len(stack)] = [@ EXCEPT !.awaiting = TRUE]]
    /\ UNCHANGED <<root, pending, step_outcomes, c_returned>>
    /\ OnlyComposed

\* the same for a sub-action that is a ComposedAction: its execute_with_hooks
\* runs its hooks and calls its execute
NestedBegin ==
    /\ stack # <<>>
    /\ pending = None
    /\ ~Top.awaiting
    /\ LET a == StepAction(Top.node, Top.i) IN
       /\ a.kind = "composed"
       /\ stack' = [stack EXCEPT ![Len(stack)] = [@ EXCEPT !.awaiting = TRUE]]
                   \o <<NewFrame(a)>>
    /\ UNCHANGED <<root, pending, sub_state, started_order, step_outcomes, c_returned>>
    /\ OnlyComposed

\* the execute_with_hooks of a nested ComposedAction ends before its execute
\* was called (its pre_execute raised): its caller gets a failure result
NestedHookFails ==
    /\ stack # <<>>
    /\ pending = None
    /\ ~Top.awaiting
    /\ StepAction(Top.node, Top.i).kind = "composed"
    /\ stack' = [stack EXCEPT ![Len(stack)] = [@ EXCEPT !.awaiting = TRUE]]
    /\ pending' = Some("failure")
    /\ UNCHANGED <<root, sub_state, started_order, step_outcomes, c_returned>>
    /\ OnlyComposed

\* the timeout of a nested ComposedAction expires while it awaits a leaf: its
\* execute is cancelled, and the leaf with it; its caller gets a TIMEOUT result
NestedTimeout ==
    /\ Len(stack) >= 2
    /\ pending = None
    /\ Top.awaiting
    /\ LET a == StepAction(Top.node, Top.i) IN
       /\ a.kind = "leaf"
       /\ sub_state' = [sub_state EXCEPT ![a.id] = "cancelled"]
    /\ stack' = Pop
    /\ pending' = Some("failure")
    /\ UNCHANGED <<root, started_order, step_outcomes, c_returned>>
    /\ OnlyComposed

\* the execute_with_hooks of the leaf returns a result or raises
StepEnd(o) ==
    /\ stack # <<>>
    /\ pending = None
    /\ Top.awaiting
    /\ LET a == StepAction(Top.node, Top.i) IN
       /\ a.kind = "leaf"
       /\ sub_state[a.id] = "running"
       /\ sub_state' = [sub_state EXCEPT ![a.id] = o]
    /\ AfterStep(o)
    /\ UNCHANGED <<root, started_order>>
    /\ OnlyComposed

\* the execute_with_hooks of the nested ComposedAction has returned
NestedEnd ==
    /\ stack # <<>>
    /\ pending # None
    /\ Top.awaiting
    /\ AfterStep(CHOOSE o \in pending : TRUE)
    /\ UNCHANGED <<root, sub_state, started_order>>
    /\ OnlyComposed

NextComposed ==
    \/ StepBegin
    \/ NestedBegin
    \/ NestedHookFails
    \/ NestedTimeout
    \/ \E o \in {"success", "failure", "raise"} : StepEnd(o)
    \/ NestedEnd

\* ------------------------------------------- claims on ComposedAction
TheComposedResult == CHOOSE r \in c_returned : TRUE
RootSteps == Len(root.actions)
\* the positions (1-based) of the root's steps that returned a failing result
FailedSteps == {k \in 1..Len(step_outcomes) : step_outcomes[k] = "failure"}

\* C7: with stop_on_failure, as soon as the step at position k has returned a
\* failing result the execute has returned a failure whose metadata has
\* completed_steps = k - 1, failed_step = k, total_steps = the number of
\* sub-actions; k is the last step taken and nothing of a later step started.
C7_StopOnFailure ==
    root.stop_on_failure =>
        \A k \in FailedSteps :
            /\ c_returned # None
            /\ stack = <<>>
            /\ ~TheComposedResult.success
            /\ TheComposedResult.status = "failure"
            /\ TheComposedResult.metadata.completed_steps = Some(k - 1)
            /\ TheComposedResult.metadata.failed_step = Some(k)
            /\ TheComposedResult.metadata.total_steps = Some(RootSteps)
            /\ Len(step_outcomes) = k
            /\ \A j \in (k + 1)..RootSteps :
                  \A id \in LeavesOf(root.actions[j]) : sub_state[id] = "notstarted"

\* C7 witness: [ok, fail, ok] with stop_on_failure stopped at step 2.
C7_Witness ==
    /\ root = ComposedAction(FlatActions(3), TRUE, TRUE)
    /\ step_outcomes = <<"success", "failure">>
    /\ c_returned # None
    /\ sub_state[3] = "notstarted"

\* C8: the leaves of a composition are started in list order (for a chain
\* built with compose_with/then: in the order chained, the leaves being
\* numbered in that order), one at a time: while one runs, every leaf started
\* before it has ended, and no step of any activation starts before the
\* previous step of that activation has ended.
C8_Sequential ==
    /\ \A p, q \in 1..Len(started_order) :
          p < q => started_order[p] < started_order[q]
    /\ \A id \in 1..MaxSteps :
          sub_state[id] = "running" =>
              /\ started_order # <<>>
              /\ started_order[Len(started_order)] = id
              /\ \A other \in 1..MaxSteps : other # id => sub_state[other] # "running"
    /\ \A d \in 1..Len(stack) :
          \A j \in 1..stack[d].i :
              \A id \in LeavesOf(stack[d].node.actions[j]) : sub_state[id] # "running"
    /\ \A d \in 1..Len(stack) :
          \A j \in (stack[d].i + 2)..Len(stack[d].node.actions) :
              \A id \in LeavesOf(stack[d].node.actions[j]) : sub_state[id] = "notstarted"

\* C8 witness: a.then(b).then(c) ran a, b, c in that order to the end.
C8_Witness ==
    /\ root = Chain(3)
    /\ started_order = <<1, 2, 3>>
    /\ c_returned # None
    /\ TheComposedResult.success

\* C9: without stop_on_failure the execute returns only after every step was
\* taken, whatever failed before; the result is a success with
\* data.completed_steps = the number of sub-actions, and metadata.failed_step
\* is the position of a step that returned a failing result, non-null whenever
\* some step returned one.
C9_ContinueOnFailure ==
    (~root.stop_on_failure /\ c_returned # None) =>
        /\ Len(step_outcomes) = RootSteps
        /\ \A j \in 1..RootSteps :
              root.actions[j].kind = "leaf" =>
                  sub_state[root.actions[j].id] \in {"success", "failure", "raise"}
        /\ TheComposedResult.success
        /\ TheComposedResult.status = "success"
        /\ TheComposedResult.data.completed_steps = Some(RootSteps)
        /\ TheComposedResult.data.total_steps = Some(RootSteps)
        /\ FailedSteps # {} => TheComposedResult.metadata.failed_step # None
        /\ TheComposedResult.metadata.failed_step \subseteq FailedSteps

\* C9 witness: [ok, fail, ok] without stop_on_failure ran all three steps.
C9_Witness ==
    /\ root = ComposedAction(FlatActions(3), FALSE, TRUE)
    /\ step_outcomes = <<"success", "failure", "success">>
    /\ c_returned # None
    /\ TheComposedResult.metadata.failed_step = Some(2)

\* C10 (as claimed): without stop_on_failure, when at least one step failed the
\* success flag of the overall result is false.
C10_SuccessOnlyIfNoStepFailed ==
    (~root.stop_on_failure /\ c_returned # None /\ FailedSteps # {}) =>
        ~TheComposedResult.success

\* C10 (amended): without stop_on_failure the success flag of the overall
\* result is always true; it is data.all_succeeded that is false whenever at
\* least one step returned a failing result, and true when none did.
C10_AllSucceededFlag ==
    (~root.stop_on_failure /\ c_returned # None) =>
        /\ TheComposedResult.success
        /\ TheComposedResult.data.all_succeeded = Some(FailedSteps = {})

\* C10 witness: a step failed, and the overall result is a success carrying
\* all_succeeded = false.
C10_Witness ==
    /\ ~root.stop_on_failure
    /\ c_returned # None
    /\ FailedSteps # {}
    /\ TheComposedResult.success
    /\ TheComposedResult.data.all_succeeded = Some(FALSE)

\* the steps of the root whose execute_with_hooks did not return a success
NotSucceeded == {k \in 1..Len(step_outcomes) : step_outcomes[k] # "success"}

\* the largest element of a non-empty set of steps
LastOf(S) == CHOOSE k \in S : \A j \in S : j <= k

\* C32: a step that raises counts as a step that returned a failure. With
\* stop_on_failure the execution returns a failure naming the first such
\* step, which is the last step started; without it all steps run, and the
\* result has all_succeeded false and failed_step set to the last step that
\* failed or raised, as it is for failure results.
C32_ExceptionCountsAsFailure ==
    c_returned # None =>
        IF root.stop_on_failure /\ NotSucceeded # {}
        THEN /\ ~TheComposedResult.success
             /\ NotSucceeded = {Len(step_outcomes)}
             /\ TheComposedResult.metadata.failed_step = Some(Len(step_outcomes))
        ELSE /\ Len(step_outcomes) = RootSteps
             /\ TheComposedResult.data.all_succeeded = Some(NotSucceeded = {})
             /\ TheComposedResult.metadata.failed_step =
                    IF NotSucceeded = {} THEN None ELSE Some(LastOf(NotSucceeded))

\* a call never makes more than retry_count + 1 attempts nor more than
\* retry_count backoff sleeps, and a ComposedAction over n sub-actions never
\* makes more than n sub-action executions
C40_AttemptsBounded ==
    /\ attempt <= retry_count
    /\ execute_calls <= retry_count + 1
    /\ Len(sleeps) <= retry_count
    /\ Len(step_outcomes) <= RootSteps

C40_ComposedTerminates == []C40_AttemptsBounded /\ <>(c_returned # None)

branch_result(o, b) ==
    [success |-> (o = "success"), status |-> o,
     data |-> [condition_result |-> None, else_action |-> "unset"],
     metadata |-> [condition_result |-> Some(b)]]

\* ActionResult.success_result(data={"condition_result": False, "else_action": None})
no_else_result ==
    [success |-> TRUE, status |-> "success",
     data |-> [condition_result |-> Some(FALSE), else_action |-> "None"],
     metadata |-> [condition_result |-> None]]

\* ActionResult.timeout_result of the enclosing execute_with_hooks
conditional_timeout_result ==
    [success |-> FALSE, status |-> "timeout",
     data |-> [condition_result |-> None, else_action |-> "unset"],
     metadata |-> [condition_result |-> None]]

\* Mutant: the then branch is taken whatever the condition returned.
ConditionHoldsAlways(o) == TRUE

\* `if condition_result.success:` (440)
ConditionHolds(o) == o = "success"

\* `if self.else_action:` (446): an action object is truthy
HasElse(e) == e # None

InitConditional ==
    /\ else_action \in {None, Some("else")}
    /\ k_retry \in 0..MaxRetry
    /\ k_attempt = 0
    /\ k_pc = "start"
    /\ cond_state = "notstarted"
    /\ then_state = "notstarted"
    /\ else_state = "notstarted"
    /\ k_result = None

\* execute_with_hooks calls ConditionalAction.execute, which awaits
\* condition_action.execute_with_hooks (159, 438)
ConditionalExecute ==
    /\ k_pc = "start"
    /\ k_pc' = "condition"
    /\ cond_state' = "running"
    /\ then_state' = "notstarted"
    /\ else_state' = "notstarted"
    /\ k_result' = None
    /\ UNCHANGED <<else_action, k_retry, k_attempt>>
    /\ OnlyConditional

\* the condition's execute_with_hooks returns a result of outcome o; the branch
\* is chosen and its execute_with_hooks awaited, or execute returns (440-452)
ConditionEnd(o) ==
    /\ k_pc = "condition"
    /\ cond_state' = o
    /\ IF ConditionHolds(o)
       THEN /\ k_pc' = "then"
            /\ then_state' = "running"
            /\ UNCHANGED <<else_state, k_result>>
       ELSE IF HasElse(else_action)
       THEN /\ k_pc' = "else"
            /\ else_state' = "running"
            /\ UNCHANGED <<then_state, k_result>>
       ELSE /\ k_pc' = "done"
            /\ k_result' = Some(no_else_result)
            /\ UNCHANGED <<then_state, else_state>>
    /\ UNCHANGED <<else_action, k_retry, k_attempt>>
    /\ OnlyConditional

\* the branch's execute_with_hooks returns; execute returns its result,
\* annotated with the condition's verdict (443, 448)
BranchEnd(o) ==
    /\ k_pc \in {"then", "else"}
    /\ IF k_pc = "then"
       THEN /\ then_state' = o
            /\ k_result' = Some(branch_result(o, TRUE))
            /\ UNCHANGED else_state
       ELSE /\ else_state' = o
            /\ k_result' = Some(branch_result(o, FALSE))
            /\ UNCHANGED then_state
    /\ k_pc' = "done"
    /\ UNCHANGED <<else_action, k_retry, k_attempt, cond_state>>
    /\ OnlyConditional

\* the timeout of the enclosing execute_with_hooks expires while execute awaits
\* a sub-action: the execution is cancelled, and the sub-action with it (194-201)
ConditionalTimeout ==
    /\ k_pc \in {"condition", "then", "else"}
    /\ cond_state' = IF k_pc = "condition" THEN "cancelled" ELSE cond_state
    /\ then_state' = IF k_pc = "then" THEN "cancelled" ELSE then_state
    /\ else_state' = IF k_pc = "else" THEN "cancelled" ELSE else_state
    /\ IF k_attempt < k_retry
       THEN /\ k_pc' = "start"
            /\ k_attempt' = k_attempt + 1
            /\ UNCHANGED k_result
       ELSE /\ k_pc' = "returned"
            /\ k_result' = Some(conditional_timeout_result)
            /\ UNCHANGED k_attempt
    /\ UNCHANGED <<else_action, k_retry>>
    /\ OnlyConditional

\* execute has returned: execute_with_hooks returns a success and the failure
\* of the last attempt, and otherwise runs execute again (173-192)
ConditionalReturn ==
    /\ k_pc = "done"
    /\ LET r == CHOOSE x \in k_result : TRUE IN
       IF r.success \/ ~(k_attempt < k_retry)
       THEN /\ k_pc' = "returned"
            /\ UNCHANGED k_attempt
       ELSE /\ k_pc' = "start"
            /\ k_attempt' = k_attempt + 1
    /\ UNCHANGED <<else_action, k_retry, cond_state, then_state, else_state, k_result>>
    /\ OnlyConditional

NextConditional ==
    \/ ConditionalExecute
    \/ \E o \in {"success", "failure"} : ConditionEnd(o)
    \/ \E o \in {"success", "failure"} : BranchEnd(o)
    \/ ConditionalTimeout
    \/ ConditionalReturn

\* ------------------------------------------- claims on ConditionalAction
Started(s) == s # "notstarted"
Completed(s) == s \in {"success", "failure"}

\* C11: in one execution of ConditionalAction.execute the condition runs first
\* (while it runs no branch has started) and a branch starts only once the
\* condition has completed: then_action only after a success, else_action only
\* after a failure and only if one is configured, never both.  When execute
\* has returned, then_action has run iff the condition succeeded, else_action
\* has run iff the condition failed and an else_action is configured, the
\* result of the branch that ran carries the condition's verdict, and a failed
\* condition without else_action gives a success with condition_result = false.
C11_ConditionalBranches ==
    /\ cond_state = "running" => ~Started(then_state) /\ ~Started(else_state)
    /\ Started(then_state) => cond_state = "success"
    /\ Started(else_state) => cond_state = "failure" /\ else_action # None
    /\ ~(Started(then_state) /\ Started(else_state))
    /\ k_pc = "done" =>
          /\ Completed(cond_state)
          /\ Completed(then_state) <=> cond_state = "success"
          /\ Completed(else_state) <=> (cond_state = "failure" /\ else_action # None)
          /\ Completed(then_state) => k_result = Some(branch_result(then_state, TRUE))
          /\ Completed(else_state) => k_result = Some(branch_result(else_state, FALSE))
          /\ (cond_state = "failure" /\ else_action = None) =>
                /\ k_result = Some(no_else_result)
                /\ no_else_result.success
                /\ no_else_result.data.condition_result = Some(FALSE)

\* C11 witness: on a retry of the whole conditional the condition failed and,
\* no else_action being configured, execute returned the success result.
C11_Witness ==
    /\ k_pc = "done"
    /\ k_attempt >= 1
    /\ cond_state = "failure"
    /\ else_action = None
    /\ ~Started(then_state)
    /\ k_result = Some(no_else_result)

\* =========================================================== core/logger.py
\* The pages the logger is attached to; two pages may belong to one session.
Pages == {"p1", "p2"}
SessionIds == {"s1", "s2"}
\* A write to the sink succeeds or raises (OSError, serialization error).
FlushOutcomes == {"ok", "fail"}

\* Mutant: the flush is signalled only once the buffer is over its size.
should_flush_strict(n) == n > max_size

\* LogBuffer.add_event: `return len(self._buffer) >= self.max_size` (61)
should_flush(n) == n >= max_size

\* the buffer content buf when no flush is made
no_flush(buf) == [buffer |-> buf, sink |-> sink, raised |-> FALSE, flushed |-> FALSE]

\* BrowserLogger._flush_buffer applied to the buffer content buf (146-214):
\* what it leaves in the buffer and in the sink, whether it raises
\* LoggingError, and whether flush_all took a batch out of the buffer.
\* What a failing write left in the file is not known to be on the disk and
\* does not count as written.
flush_buffer(buf, o) ==
    IF ~output_file \/ buf = <<>> THEN no_flush(buf)
    ELSE IF o = "ok"
    THEN [buffer |-> <<>>, sink |-> sink \o buf, raised |-> FALSE, flushed |-> TRUE]
    ELSE [buffer |-> <<>>, sink |-> sink, raised |-> TRUE, flushed |-> TRUE]

\* BrowserLogger.__init__, and the pages before any start_logging
InitLogger ==
    /\ auto_flush \in BOOLEAN
    /\ max_size \in 1..MaxBufferSize
    /\ session_id \in {[p \in Pages |-> IF p = "p1" THEN "s1" ELSE s] : s \in SessionIds}
    /\ page_subs = [p \in Pages |-> 0]
    /\ is_logging = FALSE
    /\ output_file = FALSE
    /\ active_pages = {}
    /\ flush_task = "none"
    /\ buffer = <<>>
    /\ sink = <<>>
    /\ inflight = <<>>
    /\ n_emitted = 0
    /\ stop_pc = "idle"
    /\ stop_detached = FALSE
    /\ started = [p \in Pages |-> FALSE]
    /\ accepted = {}
    /\ isolated_error = FALSE
    /\ last_op = "init"

\* BrowserLogger.start_logging(page), with _initialize_logging (96-107, 245-254).
\* start_logging and stop_logging are called one at a time.
StartLogging(p) ==
    /\ stop_pc = "idle"
    /\ page_subs[p] < MaxSubs
    /\ IF ~is_logging
       THEN /\ output_file' = TRUE
            /\ is_logging' = TRUE
            /\ flush_task' = IF auto_flush THEN "sleeping" ELSE flush_task
       ELSE UNCHANGED <<output_file, is_logging, flush_task>>
    /\ page_subs' = [page_subs EXCEPT ![p] = @ + 1]
    /\ active_pages' = active_pages \cup {session_id[p]}
    /\ started' = [started EXCEPT ![p] = TRUE]
    /\ last_op' = "start"
    /\ UNCHANGED <<auto_flush, max_size, session_id, buffer, sink, inflight, n_emitted,
                   stop_pc, stop_detached, accepted, isolated_error>>
    /\ OnlyLogger

\* page.emit(event): one coroutine of _handle_event per registration is
\* created; they run later, in the order created (handlers.py 174-180).
\* The pages emit one event at a time.
PageEmit(p) ==
    /\ n_emitted < MaxEvents
    /\ inflight = <<>>
    /\ page_subs[p] > 0
    /\ n_emitted' = n_emitted + 1
    /\ inflight' = [i \in 1..page_subs[p] |-> n_emitted + 1]
    /\ UNCHANGED <<auto_flush, max_size, session_id, page_subs, is_logging, output_file,
                   active_pages, flush_task, buffer, sink, stop_pc, stop_detached,
                   started, accepted, isolated_error, last_op>>
    /\ OnlyLogger

\* BrowserLogger._handle_event(event) (127-144): pass is the verdict of the
\* filters; a LoggingError raised by the flush goes to the emitter, which
\* isolates it (handlers.py 180-196)
HandleEvent(pass, o) ==
    /\ inflight # <<>>
    /\ inflight' = Tail(inflight)
    /\ IF ~pass
       THEN /\ last_op' = "filtered"
            /\ UNCHANGED <<buffer, sink, accepted, isolated_error>>
       ELSE LET buf1 == Append(buffer, Head(inflight))
                f == IF should_flush(Len(buf1)) /\ auto_flush
                     THEN flush_buffer(buf1, o)
                     ELSE no_flush(buf1)
            IN  /\ buffer' = f.buffer
                /\ sink' = f.sink
                /\ isolated_error' = (isolated_error \/ f.raised)
                /\ last_op' = "handle"
                /\ accepted' = IF is_logging THEN accepted \cup {Head(inflight)}
                               ELSE accepted
    /\ UNCHANGED <<auto_flush, max_size, session_id, page_subs, is_logging, output_file,
                   active_pages, flush_task, n_emitted, stop_pc, stop_detached, started>>
    /\ OnlyLogger

\* BrowserLogger._periodic_flush: the sleep of one second is over (273-278);
\* a LoggingError ends the task and stays in it
PeriodicFlush(o) ==
    /\ flush_task = "sleeping"
    /\ is_logging
    /\ LET f == flush_buffer(buffer, o) IN
       /\ buffer' = f.buffer
       /\ sink' = f.sink
       /\ flush_task' = IF f.raised THEN "failed" ELSE flush_task
    /\ last_op' = "tick"
    /\ UNCHANGED <<auto_flush, max_size, session_id, page_subs, is_logging, output_file,
                   active_pages, inflight, n_emitted, stop_pc, stop_detached, started,
                   accepted, isolated_error>>
    /\ OnlyLogger

\* stop_logging ends by raising the LoggingError of a flush
StopRaises ==
    /\ stop_pc' = "idle"
    /\ stop_detached' = FALSE
    /\ last_op' = "stop_raised"

\* `if self._output_file: self._output_file.close() ... = None` (267-271),
\* after which stop_logging returns
CloseSink(detached) ==
    /\ output_file' = FALSE
    /\ stop_pc' = "idle"
    /\ stop_detached' = FALSE
    /\ last_op' = IF detached THEN "last_stop_returned" ELSE "stop_returned"

\* _shutdown_logging from `self._flush_task = None` on (265-271): the final
\* flush, which either raises, or has nothing to write and closes the sink,
\* or writes and waits for the data to reach the disk
FinalFlush(o, detached) ==
    LET f == flush_buffer(buffer, o) IN
    /\ flush_task' = "none"
    /\ buffer' = f.buffer
    /\ sink' = f.sink
    /\ IF f.raised
       THEN /\ StopRaises
            /\ UNCHANGED output_file
       ELSE IF ~f.flushed
       THEN CloseSink(detached)
       ELSE /\ stop_pc' = "await_io"
            /\ stop_detached' = detached
            /\ last_op' = "stop"
            /\ UNCHANGED output_file

\* BrowserLogger.stop_logging(page) up to its first suspension (109-125,
\* 256-266)
StopLogging(p, o) ==
    /\ stop_pc = "idle"
    /\ page_subs' = [page_subs EXCEPT ![p] = IF @ > 0 THEN @ - 1 ELSE @]
    /\ active_pages' = active_pages \ {session_id[p]}
    /\ started' = [started EXCEPT ![p] = FALSE]
    /\ IF active_pages' # {}
       THEN /\ last_op' = "stop_returned"
            /\ UNCHANGED <<is_logging, output_file, flush_task, buffer, sink, stop_pc,
                           stop_detached>>
       ELSE /\ is_logging' = FALSE
            /\ CASE flush_task = "sleeping" ->
                      \* cancel() and `await self._flush_task`
                      /\ flush_task' = "cancelling"
                      /\ stop_pc' = "await_task"
                      /\ stop_detached' = (session_id[p] \in active_pages)
                      /\ last_op' = "stop"
                      /\ UNCHANGED <<output_file, buffer, sink>>
                 [] flush_task = "failed" ->
                      \* awaiting the task that ended with a LoggingError raises it
                      /\ StopRaises
                      /\ UNCHANGED <<output_file, flush_task, buffer, sink>>
                 [] flush_task = "none" ->
                      FinalFlush(o, session_id[p] \in active_pages)
    /\ UNCHANGED <<auto_flush, max_size, session_id, inflight, n_emitted, accepted,
                   isolated_error>>
    /\ OnlyLogger

\* the cancelled periodic task has ended: stop_logging goes on (262-266)
ShutdownTaskDone(o) ==
    /\ stop_pc = "await_task"
    /\ flush_task = "cancelling"
    /\ FinalFlush(o, stop_detached)
    /\ UNCHANGED <<auto_flush, max_size, session_id, page_subs, is_logging,
                   active_pages, inflight, n_emitted, started, accepted,
                   isolated_error>>
    /\ OnlyLogger

\* run_in_executor(self._output_file.flush) of the final flush is over (211):
\* it raised, or the sink is closed and stop_logging returns
ShutdownIoDone(o) ==
    /\ stop_pc = "await_io"
    /\ IF o = "ok"
       THEN CloseSink(stop_detached)
       ELSE /\ StopRaises
            /\ UNCHANGED output_file
    /\ UNCHANGED <<auto_flush, max_size, session_id, page_subs, is_logging,
                   active_pages, flush_task, buffer, sink, inflight, n_emitted,
                   started, accepted, isolated_error>>
    /\ OnlyLogger

NextLogger ==
    \/ \E p \in Pages : StartLogging(p)
    \/ \E p \in Pages : PageEmit(p)
    \/ \E pass \in BOOLEAN, o \in FlushOutcomes : HandleEvent(pass, o)
    \/ \E o \in FlushOutcomes : PeriodicFlush(o)
    \/ \E p \in Pages, o \in FlushOutcomes : StopLogging(p, o)
    \/ \E o \in FlushOutcomes : ShutdownTaskDone(o)
    \/ \E o \in FlushOutcomes : ShutdownIoDone(o)

\* ------------------------------------------------------ claims on the logger
Range(s) == {s[i] : i \in 1..Len(s)}

\* C12: when stop_logging detaches the last active source and returns
\* normally, every event that passed the filters while logging was active is
\* in the sink, the buffer is empty, the periodic task is gone and the sink
\* is closed.
C12_StopFlushesEverything ==
    last_op = "last_stop_returned" =>
        /\ accepted \subseteq Range(sink)
        /\ buffer = <<>>
        /\ flush_task = "none"
        /\ ~output_file

\* C13: between the calls of start_logging and stop_logging, the sink is open
\* exactly while some started source has not been stopped.
C13_SinkOpenWhileSourcesStarted ==
    stop_pc = "idle" => (output_file <=> \E p \in Pages : started[p])

\* C14: with auto_flush on and the sink open, the append that brings the
\* buffer to max_size flushes the whole buffer inside the same _handle_event
\* call (the write succeeds or raises), a smaller append leaves the sink
\* alone, and after each tick the buffer is empty.
C14_HandleStep ==
    (/\ inflight # <<>>
     /\ inflight' = Tail(inflight)
     /\ last_op' = "handle"
     /\ auto_flush
     /\ output_file)
    => LET buf1 == Append(buffer, Head(inflight)) IN
       IF Len(buf1) >= max_size
       THEN /\ buffer' = <<>>
            /\ \/ sink' = sink \o buf1
               \/ sink' = sink /\ isolated_error'
       ELSE /\ buffer' = buf1
            /\ sink' = sink

C14_FlushAtFullOrTick ==
    /\ [][C14_HandleStep]_vars
    /\ []((last_op = "tick" /\ output_file) => buffer = <<>>)

\* both events were written by the flush of a _handle_event call that filled
\* a buffer of two, while the periodic task was waiting for its tick
C14_Witness ==
    /\ last_op = "handle"
    /\ auto_flush
    /\ max_size = 2
    /\ buffer = <<>>
    /\ sink = <<1, 2>>
    /\ flush_task = "sleeping"
    /\ ~isolated_error

\* C15: no LoggingError of a flush is swallowed on its way to the caller of
\* the logger.
C15_FlushFailuresPropagate == ~isolated_error

\* C23: the number of buffered events never exceeds max_size.
C23_BufferBounded == Len(buffer) <= max_size

\* C35: an event a logged page emits is buffered and written once, never
\* twice, whatever calls of start_logging and stop_logging were made.
C35_NoEventTwice ==
    LET all == sink \o buffer IN
    \A i, j \in 1..Len(all) : all[i] = all[j] => i = j

\* C36: between the calls of start_logging and stop_logging, while the
\* handler of the logger is subscribed to some page the logger is active
\* and its sink is open.
C36_ActiveWhileSubscribed ==
    (stop_pc = "idle" /\ \E p \in Pages : page_subs[p] > 0) =>
        is_logging /\ output_file

\* C37: every event that passed the filters while logging was active is in
\* the buffer or in the sink, also after a flush that failed.
C37_NoAcceptedEventDropped ==
    accepted \subseteq (Range(buffer) \cup Range(sink))

\* ========================================================= events/filters.py
\* Strings are sequences of characters, so that matching is computed.
LowerChar(c) == IF c = "A" THEN "a" ELSE IF c = "B" THEN "b" ELSE c
\* str.lower()
Lower(s) == [i \in 1..Len(s) |-> LowerChar(s[i])]
\* `t in s` of two strings
Contains(t, s) ==
    \E i \in 0..(Len(s) - Len(t)) : SubSeq(s, i + 1, i + Len(t)) = t
StartsWith(s, t) == Len(t) <= Len(s) /\ SubSeq(s, 1, Len(t)) = t
EndsWith(s, t) == Len(t) <= Len(s) /\ SubSeq(s, Len(s) - Len(t) + 1, Len(s)) = t

\* The event types, filter domains and selector strings the filters are
\* configured with, and the events they are asked about.
FilterEventTypes == {"interaction", "navigation"}
DomainStrings == {<<"a", ".", "b">>, <<"B">>}
SelectorStrings == {<<"#", "a">>, <<"/", "^", "a", "$", "/">>, <<"/", "a", "/">>}
\* urlparse(event.page_url).netloc, or None when urlparse raises
EventNetlocs == {None, Some(<<"a", ".", "b">>), Some(<<"x", ".", "A", ".", "B">>),
                 Some(<<"c">>)}
\* getattr(event, 'selector', ''), or None for an event without the attribute
EventSelectors == {None, Some(<<>>), Some(<<"a">>), Some(<<"#", "a", "b">>),
                   Some(<<"#", "a">>)}
\* custom_filter: absent, or a predicate that accepts or rejects the event
CustomFilters == {"none", "accepts", "rejects"}

\* EventFilter.__init__ (47-62): the pattern compiled for one selector
\* string. A string wrapped in /.../ is a regular expression, of which the
\* anchors ^ and $ are interpreted; any other string is escaped.
compile_selector(selector) ==
    IF StartsWith(selector, <<"/">>) /\ EndsWith(selector, <<"/">>)
    THEN LET body == SubSeq(selector, 2, Len(selector) - 1)
             from_start == StartsWith(body, <<"^">>)
             to_end == EndsWith(body, <<"$">>)
         IN  [from_start |-> from_start, to_end |-> to_end,
              text |-> SubSeq(body, IF from_start THEN 2 ELSE 1,
                              IF to_end THEN Len(body) - 1 ELSE Len(body))]
    ELSE [from_start |-> FALSE, to_end |-> FALSE, text |-> selector]

\* pattern.search(s)
pattern_search(pattern, s) ==
    IF pattern.from_start /\ pattern.to_end THEN s = pattern.text
    ELSE IF pattern.from_start THEN StartsWith(s, pattern.text)
    ELSE IF pattern.to_end THEN EndsWith(s, pattern.text)
    ELSE Contains(pattern.text, s)

\* EventFilter._matches_domain (107-127)
matches_domain(f, e) ==
    /\ e.netloc # None
    /\ \E domain_filter \in f.domains, domain \in e.netloc :
           Contains(Lower(domain_filter), Lower(domain))

\* EventFilter._matches_selector (129-150)
matches_selector(f, e) ==
    /\ e.selector # None
    /\ e.selector # Some(<<>>)
    /\ \E selector \in f.selectors, s \in e.selector :
           pattern_search(compile_selector(selector), s)

\* EventFilter._matches_criteria (79-105)
matches_criteria(f, e) ==
    IF f.event_types # {} /\ e.event_type \notin f.event_types THEN FALSE
    ELSE IF f.domains # {} /\ ~matches_domain(f, e) THEN FALSE
    ELSE IF f.selectors # {} /\ ~matches_selector(f, e) THEN FALSE
    ELSE IF f.custom_filter # "none" /\ f.custom_filter # "accepts" THEN FALSE
    ELSE TRUE

\* Mutant: exclude_mode is ignored.
should_process_include_only(f, e) == matches_criteria(f, e)

\* EventFilter.should_process (64-77)
should_process(f, e) ==
    IF f.exclude_mode THEN ~matches_criteria(f, e) ELSE matches_criteria(f, e)

\* an EventFilter of any configuration and an event of any content
InitFilter ==
    /\ filter \in [event_types : SUBSET FilterEventTypes,
                   domains : SUBSET DomainStrings,
                   selectors : SUBSET SelectorStrings,
                   custom_filter : CustomFilters,
                   exclude_mode : BOOLEAN]
    /\ event \in [event_type : FilterEventTypes,
                  netloc : EventNetlocs,
                  selector : EventSelectors]
    /\ verdict = None

\* a call of filter.should_process(event)
ShouldProcess ==
    /\ verdict = None
    /\ verdict' = Some(should_process(filter, event))
    /\ UNCHANGED <<filter, event>>
    /\ OnlyFilter

NextFilter == ShouldProcess

\* ------------------------------------------------------ claims on EventFilter
\* each criterion on its own; one that is not configured counts as true
TypeCriterion == filter.event_types = {} \/ event.event_type \in filter.event_types
DomainCriterion == filter.domains = {} \/ matches_domain(filter, event)
SelectorCriterion == filter.selectors = {} \/ matches_selector(filter, event)
CustomCriterion == filter.custom_filter \in {"none", "accepts"}
AllCriteria == TypeCriterion /\ DomainCriterion /\ SelectorCriterion /\ CustomCriterion

\* C16: should_process(event) is the conjunction of the configured criteria
\* (type, domain, selector, custom predicate), negated under exclude_mode.
C16_ConjunctionThenMode ==
    verdict # None =>
        verdict = Some(IF filter.exclude_mode THEN ~AllCriteria ELSE AllCriteria)

\* an exclude-mode filter with all four criteria configured rejects an event
\* that meets them all
C16_Witness ==
    /\ verdict = Some(FALSE)
    /\ filter.exclude_mode
    /\ filter.event_types = {"interaction"}
    /\ filter.domains # {}
    /\ filter.selectors # {}
    /\ filter.custom_filter = "accepts"
    /\ AllCriteria

\* a configured selector string wrapped in /.../
IsRegexSelector(selector) == StartsWith(selector, <<"/">>) /\ EndsWith(selector, <<"/">>)

\* C33: a selector string not wrapped in /.../ is an exact-match pattern.
\* The selector criterion accepts an event only if the event has a selector
\* that equals one of the literal strings or matches one of the /regex/
\* patterns.
C33_LiteralSelectorsExact ==
    (verdict # None /\ matches_selector(filter, event)) =>
        /\ event.selector # None
        /\ \E selector \in filter.selectors, s \in event.selector :
               IF IsRegexSelector(selector)
               THEN pattern_search(compile_selector(selector), s)
               ELSE s = selector

\* ----------------------------------------------------------- FilterChain
ChainOperations == {"and", "or"}
\* what add_filter may be called with
AddOperations == ChainOperations \cup {"xor"}


\* the loop of FilterChain.should_process over self.filters[i:] with the
\* running result (428-434)
RECURSIVE chain_fold(_, _, _)
chain_fold(fs, i, acc) ==
    IF i > Len(fs) THEN acc
    ELSE chain_fold(fs, i + 1,
                    IF fs[i].operation = "and" THEN acc /\ fs[i].passes
                    ELSE acc \/ fs[i].passes)

\* Mutant: the fold starts from acceptance and applies the first pair's own
\* operation as well.
chain_should_process_from_true(fs) == chain_fold(fs, 1, TRUE)

\* FilterChain.should_process (411-436); fs[i].passes is what the i-th
\* filter's should_process answers for the event
chain_should_process(fs) ==
    IF fs = <<>> THEN TRUE
    ELSE chain_fold(fs, 2, fs[1].passes)

\* FilterChain.__init__ (384-388), without or with an initial filter
InitChain ==
    /\ chain \in {<<>>} \cup {<<[passes |-> v, operation |-> "and"]>> : v \in BOOLEAN}
    /\ chain_result = None
    /\ chain_raised = FALSE

\* FilterChain.add_filter(filter, operation) (390-409)
AddFilter(v, operation) ==
    /\ Len(chain) < MaxChain
    /\ IF operation \notin ChainOperations
       THEN /\ chain_raised' = TRUE
            /\ UNCHANGED <<chain, chain_result>>
       ELSE /\ chain' = Append(chain, [passes |-> v, operation |-> operation])
            /\ chain_result' = None
            /\ chain_raised' = FALSE
    /\ OnlyChain

\* a call of chain.should_process(event)
ChainShouldProcess ==
    /\ chain_result = None
    /\ chain_result' = Some(chain_should_process(chain))
    /\ UNCHANGED <<chain, chain_raised>>
    /\ OnlyChain

NextChain ==
    \/ \E v \in BOOLEAN, operation \in AddOperations : AddFilter(v, operation)
    \/ ChainShouldProcess

\* ----------------------------------------------------- claims on FilterChain
Combine(operation, a, b) == IF operation = "and" THEN a /\ b ELSE a \/ b
\* the verdict of a chain stated from its last pair backwards: the verdict
\* of the chain without its last pair, combined with the last filter's
RECURSIVE LeftToRight(_)
LeftToRight(fs) ==
    IF Len(fs) = 1 THEN fs[1].passes
    ELSE Combine(fs[Len(fs)].operation, LeftToRight(SubSeq(fs, 1, Len(fs) - 1)),
                 fs[Len(fs)].passes)

\* C17: an empty chain accepts; otherwise the verdict is the first filter's
\* verdict combined with each later pair in order, without precedence, and
\* the first pair's own operation plays no role.
C17_LeftToRightFold ==
    chain_result # None =>
        /\ chain = <<>> => chain_result = Some(TRUE)
        /\ chain # <<>> => chain_result = Some(LeftToRight(chain))
        /\ Len(chain) = 3 =>
               chain_result = Some(Combine(chain[3].operation,
                                           Combine(chain[2].operation, chain[1].passes,
                                                   chain[2].passes),
                                           chain[3].passes))

\* (true or false) and false is false, where "and" binding tighter than
\* "or" would give true; the first pair was added with "or"
C17_Witness ==
    /\ Len(chain) = 3
    /\ chain[1] = [passes |-> TRUE, operation |-> "or"]
    /\ chain[2] = [passes |-> FALSE, operation |-> "or"]
    /\ chain[3] = [passes |-> FALSE, operation |-> "and"]
    /\ chain_result = Some(FALSE)

\* ===================================== actions/base.py: action objects
\* Action objects live in a heap, objects[id]; the calls made on them are
\* with_retry, with_timeout, with_delays and execute_with_hooks, the latter
\* possibly several at a time on one object against different pages.
\* the arguments the helpers are called with; nothing keeps a caller from
\* passing a count outside the range of the field
RetryArgs == {-1, 2}
TimeoutArgs == {60}
DelayArgs == {<<1, 2>>}
\* what the page of an execution makes every attempt do
Targets == {"succeeds", "fails"}

\* Mutant: the helper changes the object it is called on and returns it.
model_copy_in_place(src, fresh) == src

\* `new_action = self.model_copy()`: the object the helper assigns to is a
\* fresh one
model_copy(src, fresh) == fresh

\* the heap after a helper called on src wrote the record new to its copy
heap_with(src, new) ==
    LET id == model_copy(src, Len(objects) + 1) IN
    [i \in (DOMAIN objects) \cup {id} |-> IF i = id THEN new ELSE objects[i]]

\* one action object as constructed, and no call in progress
InitObjects ==
    /\ objects \in {<<[timeout |-> 30, retry_count |-> n, wait_before |-> 0,
                       wait_after |-> 0]>> : n \in {0, 1}}
    /\ origin = <<[of |-> 0, overridden |-> {}]>>
    /\ calls = <<>>

\* self.with_retry(count) (261-273)
WithRetry(src, count) ==
    /\ Len(objects) < MaxObjects
    /\ objects' = heap_with(src, [objects[src] EXCEPT !.retry_count = count])
    /\ origin' = Append(origin, [of |-> src, overridden |-> {"retry_count"}])
    /\ UNCHANGED calls
    /\ OnlyObjects

\* self.with_timeout(timeout) (275-287)
WithTimeout(src, timeout) ==
    /\ Len(objects) < MaxObjects
    /\ objects' = heap_with(src, [objects[src] EXCEPT !.timeout = timeout])
    /\ origin' = Append(origin, [of |-> src, overridden |-> {"timeout"}])
    /\ UNCHANGED calls
    /\ OnlyObjects

\* self.with_delays(wait_before, wait_after) (289-303)
WithDelays(src, delays) ==
    /\ Len(objects) < MaxObjects
    /\ objects' = heap_with(src, [objects[src] EXCEPT !.wait_before = delays[1],
                                                      !.wait_after = delays[2]])
    /\ origin' = Append(origin, [of |-> src,
                                 overridden |-> {"wait_before", "wait_after"}])
    /\ UNCHANGED calls
    /\ OnlyObjects

\* a call of execute_with_hooks(page) on object id starts: attempt, result
\* and timing are locals of the call (145-148). When
\* range(self.retry_count + 1) is empty the loop body never runs and the
\* call returns the failure built after the loop (219-225).
CallStart(id, target) ==
    /\ Len(calls) < MaxCalls
    /\ calls' = Append(calls,
           [self |-> id, target |-> target, attempt |-> 0, made |-> 0,
            returned |-> IF objects[id].retry_count + 1 > 0 THEN None
                         ELSE Some([success |-> FALSE, retry_count |-> 0])])
    /\ UNCHANGED <<objects, origin>>
    /\ OnlyObjects

\* one attempt of the call c: it returns the success, or the failure when
\* `attempt < self.retry_count` is false, or goes to the next attempt
\* (176-216)
CallAttempt(c) ==
    /\ calls[c].returned = None
    /\ LET call == calls[c] IN
       calls' = [calls EXCEPT ![c] =
         IF call.target = "succeeds"
         THEN [call EXCEPT !.made = call.made + 1, !.returned =
                   Some([success |-> TRUE, retry_count |-> call.attempt])]
         ELSE IF call.attempt < objects[call.self].retry_count
         THEN [call EXCEPT !.made = call.made + 1, !.attempt = call.attempt + 1]
         ELSE [call EXCEPT !.made = call.made + 1, !.returned =
                   Some([success |-> FALSE, retry_count |-> call.attempt])]]
    /\ UNCHANGED <<objects, origin>>
    /\ OnlyObjects

NextObjects ==
    \/ \E src \in DOMAIN objects, count \in RetryArgs : WithRetry(src, count)
    \/ \E src \in DOMAIN objects, timeout \in TimeoutArgs : WithTimeout(src, timeout)
    \/ \E src \in DOMAIN objects, delays \in DelayArgs : WithDelays(src, delays)
    \/ \E id \in DOMAIN objects, target \in Targets : CallStart(id, target)
    \/ \E c \in DOMAIN calls : CallAttempt(c)

\* ------------------------------------------------- claims on action objects
ActionFields == {"timeout", "retry_count", "wait_before", "wait_after"}

\* no step changes a field of an object that exists
C20_ObjectsKept ==
    \A id \in DOMAIN objects : id \in DOMAIN objects' /\ objects'[id] = objects[id]

\* an object made by a helper equals the object the helper was called on in
\* every field the helper does not override
C20_CopiesDifferInOverridden ==
    /\ DOMAIN origin = DOMAIN objects
    /\ \A id \in DOMAIN objects :
           origin[id].of # 0 =>
               \A field \in ActionFields \ origin[id].overridden :
                   objects[id][field] = objects[origin[id].of][field]

\* what a call returns is decided by its own page and its object's
\* retry_count alone
C20_CallsIndependent ==
    \A c \in DOMAIN calls : \A r \in calls[c].returned :
        IF objects[calls[c].self].retry_count < 0
        THEN r = [success |-> FALSE, retry_count |-> 0]
        ELSE IF calls[c].target = "succeeds"
        THEN r = [success |-> TRUE, retry_count |-> 0]
        ELSE r = [success |-> FALSE, retry_count |-> objects[calls[c].self].retry_count]

C39_FieldsStayValid ==
    /\ \A id \in DOMAIN objects :
           /\ objects[id].retry_count \in 0..10
           /\ 10 * objects[id].timeout >= 1 /\ objects[id].timeout <= 300
           /\ objects[id].wait_before \in 0..60
           /\ objects[id].wait_after \in 0..60
    /\ \A c \in DOMAIN calls :
           calls[c].returned # None => calls[c].made \in 1..11

\* ======================================= models/results.py: ActionResult
\* ActionResult.retry_result(attempt, max_attempts, last_error) (122-145)
retry_result(n) ==
    [success |-> FALSE, status |-> "retry",
     error |-> Some([kind |-> "attempt_failed", attempts |-> n, last |-> None]),
     retry_count |-> n - 1,
     metadata |-> [retry_count |-> None, timeout_duration |-> FALSE]]

\* ActionResult.add_timing(start_time): `self.execution_time = ...` (147-158)
add_timing(r) ==
    [f \in (DOMAIN r) \cup {"execution_time"} |->
        IF f = "execution_time" THEN "elapsed" ELSE r[f]]

\* what the four factories return for the arguments the framework gives them
FactoryResults ==
    {success_result, timeout_result}
        \cup {failure_result(e) : e \in {ExecuteError, ExceptionError}}
        \cup {failure_result(ExhaustedError(n + 1, Some(ExceptionError))) : n \in 0..MaxRetry}
        \cup {retry_result(n) : n \in 1..(MaxRetry + 1)}

\* no result made yet
InitResults == made = None

\* a call of one of the factories
MakeResult(r) ==
    /\ made = None
    /\ made' = Some(r)
    /\ OnlyResults

\* result.add_timing(start_time)
AddTiming ==
    /\ \E r \in made : made' = Some(add_timing(r))
    /\ OnlyResults

\* result.add_metadata(retry_count=n)
AddMetadata(n) ==
    /\ \E r \in made : made' = Some(add_metadata_retry_count(r, n))
    /\ OnlyResults

\* `result.retry_count = attempt` in execute_with_hooks (base.py 172, 190)
SetRetryCount(n) ==
    /\ \E r \in made : made' = Some([r EXCEPT !.retry_count = n])
    /\ OnlyResults

NextResults ==
    \/ \E r \in FactoryResults : MakeResult(r)
    \/ AddTiming
    \/ \E n \in 0..MaxRetry : AddMetadata(n)
    \/ \E n \in 0..MaxRetry : SetRetryCount(n)

\* ------------------------------------------------- claims on ActionResult
SuccessIsClean(r) == r.success => (r.status = "success" /\ r.error = None)

\* C21: every result made by the factories, whatever add_timing,
\* add_metadata and the framework's own assignments did to it afterwards,
\* and every result the framework returns, has status SUCCESS and no error
\* when its success flag is set.
C21_SuccessImpliesStatus ==
    /\ \A r \in made : SuccessIsClean(r)
    /\ \A r \in returned \cup result : SuccessIsClean(r)
    /\ \A r \in c_returned : SuccessIsClean(r)
    /\ \A r \in k_result : r.success => r.status = "success"

\* a success result with its timing, metadata and retry_count added
C21_Witness ==
    \E r \in made :
        /\ r.success
        /\ "execution_time" \in DOMAIN r
        /\ r.metadata.retry_count = Some(2)
        /\ r.retry_count = 2

\* ================================================ events/base.py: events
\* The registry EVENT_TYPES: the type names and the class each one makes.
EventTypeNames == {"interaction", "navigation", "network_request", "dom_change"}
EventClasses == {"InteractionEvent", "NavigationEvent", "NetworkEvent", "DOMChangeEvent"}
\* the default of the class's event_type field (79, 138, 188, 263)
DefaultEventType(class) ==
    CASE class = "InteractionEvent" -> "interaction"
      [] class = "NavigationEvent" -> "navigation"
      [] class = "NetworkEvent" -> "network_request"
      [] class = "DOMChangeEvent" -> "dom_change"
\* EVENT_TYPES[event_type] (316-321)
EventClassOf(name) == CHOOSE class \in EventClasses : DefaultEventType(class) = name
\* what a caller may pass as event_type: nothing, a registered name, another
\* name, or an empty string
SuppliedEventTypes == {None} \cup {Some(n) : n \in EventTypeNames \cup {"custom", ""}}

\* the value the constructed object holds in event_type: the supplied one if
\* any (the field is an ordinary str field with a default; frozen=True only
\* forbids assignment after construction), else the default
constructed_event_type(class, supplied) ==
    IF supplied = None THEN DefaultEventType(class)
    ELSE CHOOSE v \in supplied : TRUE

InitEvents ==
    /\ ev = None
    /\ ev_error = "none"
    /\ routed = None
    /\ n_built = 0

\* a call of a subtype constructor, with or without event_type=...;
\* validate_event_type rejects an empty value (40-46)
Construct(class, supplied) ==
    /\ ev = None
    /\ n_built < MaxBuilt
    /\ n_built' = n_built + 1
    /\ IF supplied = Some("")
       THEN /\ ev_error' = "ValidationError"
            /\ UNCHANGED ev
       ELSE /\ ev' = Some([class |-> class,
                           event_type |-> constructed_event_type(class, supplied)])
            /\ ev_error' = "none"
    /\ UNCHANGED routed
    /\ OnlyEvents

\* create_event(event_type, **kwargs) (323-351): event_type is create_event's
\* own parameter and is not passed on to the class
CreateEvent(name) ==
    /\ ev = None
    /\ n_built < MaxBuilt
    /\ n_built' = n_built + 1
    /\ IF name \notin EventTypeNames
       THEN /\ ev_error' = "ValueError"
            /\ UNCHANGED ev
       ELSE /\ ev' = Some([class |-> EventClassOf(name),
                           event_type |-> constructed_event_type(EventClassOf(name), None)])
            /\ ev_error' = "none"
    /\ UNCHANGED routed
    /\ OnlyEvents

\* `event.event_type = name` after construction: the field is frozen
AssignEventType(name) ==
    /\ ev # None
    /\ ev_error' = "frozen"
    /\ UNCHANGED <<ev, routed, n_built>>
    /\ OnlyEvents

\* emit(event): `self._handlers.get(event.event_type, [])` (handlers.py 161)
EmitLookup ==
    /\ \E e \in ev : routed' = Some(e.event_type)
    /\ UNCHANGED <<ev, ev_error, n_built>>
    /\ OnlyEvents

\* the event is dropped and another one may be built
Discard ==
    /\ ev # None
    /\ ev' = None
    /\ ev_error' = "none"
    /\ routed' = None
    /\ UNCHANGED n_built
    /\ OnlyEvents

NextEvents ==
    \/ \E class \in EventClasses, supplied \in SuppliedEventTypes : Construct(class, supplied)
    \/ \E name \in EventTypeNames \cup {"custom"} : CreateEvent(name)
    \/ \E name \in EventTypeNames : AssignEventType(name)
    \/ EmitLookup
    \/ Discard

\* ------------------------------------------------------- claims on events
\* C22: every event built by a subtype constructor or by create_event holds
\* its subtype's own discriminant in event_type, whatever the caller
\* supplied, and emit looks up the handlers of that subtype.
C22_DiscriminantFixed ==
    \A e \in ev :
        /\ e.event_type = DefaultEventType(e.class)
        /\ \A r \in routed : r = DefaultEventType(e.class)

\* ============================================== core/logger.py: rotation
\* The write path of _flush_buffer for the jsonl format, one flush at a
\* time. A file is the sequence of the events written to it; every
\* serialized event, with its newline, counts as one unit of size.
RenameOutcomes == {"ok", "oserror"}

\* the batch of k events that follows the n events written so far
Batch(n, k) == [i \in 1..k |-> n + i]

\* Mutant: the size test is strict.
needs_rotation_strict(cur, approx, stat_ok) ==
    stat_ok /\ (cur > max_file_size \/ cur + approx > max_file_size)

\* BrowserLogger._needs_rotation (216-225): cur is the size of the live
\* file, approx the estimate for the pending events; an exception of stat
\* makes it answer False
needs_rotation(cur, approx, stat_ok) ==
    stat_ok /\ (cur >= max_file_size \/ cur + approx >= max_file_size)

\* `{stem}.{int(time.time())}{suffix}` (233-234)
rotated_name == clock

InitRotation ==
    /\ max_file_size \in 2..MaxFileSize
    /\ rotate_logs \in BOOLEAN
    /\ live = <<>>
    /\ rotated = [ts \in 0..MaxClock |-> None]
    /\ clock = 0
    /\ n_written = 0
    /\ last_flush = None

\* _flush_buffer with a batch of k events (146-214), with _needs_rotation
\* and _rotate_file (227-243): a rename that succeeds replaces whatever has
\* the rotated name; one that raises OSError leaves the live file in place
FlushBatch(k, stat_ok, rename) ==
    /\ n_written + k <= MaxWritten
    /\ LET batch == Batch(n_written, k)
           rotate == rotate_logs /\ needs_rotation(Len(live), Len(batch), stat_ok)
           renamed == rotate /\ rename = "ok"
       IN  /\ rotated' = IF renamed THEN [rotated EXCEPT ![rotated_name] = Some(live)]
                         ELSE rotated
           /\ live' = IF renamed THEN batch ELSE live \o batch
           /\ last_flush' = Some([batch |-> batch, live_before |-> live,
                                  rotated_before |-> rotated, stat_ok |-> stat_ok,
                                  rename |-> rename, tried |-> rotate,
                                  name |-> rotated_name])
    /\ n_written' = n_written + k
    /\ UNCHANGED <<max_file_size, rotate_logs, clock>>
    /\ OnlyRotation

\* the clock reaches the next second
ClockTick ==
    /\ clock < MaxClock
    /\ clock' = clock + 1
    /\ UNCHANGED <<max_file_size, rotate_logs, live, rotated, n_written, last_flush>>
    /\ OnlyRotation

NextRotation ==
    \/ \E k \in 1..MaxBatch, stat_ok \in BOOLEAN, rename \in RenameOutcomes :
           FlushBatch(k, stat_ok, rename)
    \/ ClockTick

\* --------------------------------------------------- claims on rotation
\* the latest flush renamed the live file and wrote its whole batch to a
\* fresh one
RotatedAt(h) ==
    /\ live = h.batch
    /\ rotated = [h.rotated_before EXCEPT ![h.name] = Some(h.live_before)]
\* the latest flush appended its batch to the live file
AppendedAt(h) ==
    /\ live = h.live_before \o h.batch
    /\ rotated = h.rotated_before
SizeReached(h) == Len(h.live_before) + Len(h.batch) >= max_file_size

\* C24 (as claimed): with rotate_logs on, a flush rotates the live file if
\* and only if its size plus the size of the pending batch is at least
\* max_file_size, and then the whole batch is in the fresh live file.
C24_RotatesIffSizeReached ==
    \A h \in last_flush :
        rotate_logs =>
            /\ SizeReached(h) => RotatedAt(h)
            /\ ~SizeReached(h) => AppendedAt(h)

\* C24 (amended): with rotate_logs on, the check made before the batch is
\* written asks for a rotation if and only if the size of the live file can
\* be read and that size plus the size of the pending batch is at least
\* max_file_size; if the rename then succeeds the whole batch is in the
\* fresh live file and none of it in the renamed one; if the rename fails,
\* or no rotation was asked for, the batch is appended to the live file.
C24_RotationBeforeWrite ==
    \A h \in last_flush :
        /\ h.tried = (rotate_logs /\ h.stat_ok /\ SizeReached(h))
        /\ (h.tried /\ h.rename = "ok") => RotatedAt(h)
        /\ ~(h.tried /\ h.rename = "ok") => AppendedAt(h)

\* a live file of two events was renamed exactly at the limit and the batch
\* of two went to the fresh file
C24_Witness ==
    \E h \in last_flush :
        /\ rotate_logs
        /\ h.tried
        /\ h.rename = "ok"
        /\ Len(h.live_before) + Len(h.batch) = max_file_size
        /\ Len(h.batch) = 2
        /\ live = h.batch
        /\ rotated[h.name] = Some(h.live_before)
        /\ h.live_before # <<>>

\* the events in the rotated files
InRotated == UNION {Range(f) : f \in UNION {rotated[ts] : ts \in DOMAIN rotated}}

\* C38: rotation destroys no data. Every event ever written is in the live
\* file or in a rotated file, also after two rotations within one second
\* of the clock.
C38_RotationKeepsData ==
    \A e \in 1..n_written : e \in Range(live) \cup InRotated

\* ============================================== core/logger.py: LogBuffer
\* Calls of add_event and flush_all on one LogBuffer, each a task that takes
\* the lock, works on the deque and releases the lock. The statements under
\* the lock are taken one at a time, which allows every interleaving the
\* event loop can produce and more.

\* Mutant: the lock is not honoured.
lock_free_always(l) == TRUE

\* asyncio.Lock.acquire goes through when the lock is not held
lock_free(l) == l = None

\* LogBuffer.__init__ (50-54)
InitBuffer ==
    /\ b_max_size \in 1..MaxBufferSize
    /\ b_buffer = <<>>
    /\ b_lock = None
    /\ b_tasks = <<>>
    /\ n_appended = 0

\* a call of add_event(event) or of flush_all() is made
BufferCall(op) ==
    /\ Len(b_tasks) < MaxOps
    /\ b_tasks' = Append(b_tasks, [op |-> op, pc |-> "acquire", event |-> 0,
                                   events |-> <<>>, size_after |-> 0, ret |-> None])
    /\ UNCHANGED <<b_max_size, b_buffer, b_lock, n_appended>>
    /\ OnlyBuffer

\* `async with self._lock:` is entered (59, 65)
Acquire(i) ==
    /\ b_tasks[i].pc = "acquire"
    /\ lock_free(b_lock)
    /\ b_lock' = Some(i)
    /\ b_tasks' = [b_tasks EXCEPT ![i].pc = "locked"]
    /\ UNCHANGED <<b_max_size, b_buffer, n_appended>>
    /\ OnlyBuffer

\* `self._buffer.append(event)` (60); the event is named by its place in the
\* order of the appends
AddAppend(i) ==
    /\ b_tasks[i].op = "add_event"
    /\ b_tasks[i].pc = "locked"
    /\ n_appended' = n_appended + 1
    /\ b_buffer' = Append(b_buffer, n_appended + 1)
    /\ b_tasks' = [b_tasks EXCEPT ![i].pc = "appended",
                                  ![i].event = n_appended + 1,
                                  ![i].size_after = Len(b_buffer) + 1]
    /\ UNCHANGED <<b_max_size, b_lock>>
    /\ OnlyBuffer

\* `return len(self._buffer) >= self.max_size` and the lock is released (61)
AddReturn(i) ==
    /\ b_tasks[i].op = "add_event"
    /\ b_tasks[i].pc = "appended"
    /\ b_tasks' = [b_tasks EXCEPT ![i].pc = "done",
                                  ![i].ret = Some(Len(b_buffer) >= b_max_size)]
    /\ b_lock' = None
    /\ UNCHANGED <<b_max_size, b_buffer, n_appended>>
    /\ OnlyBuffer

\* `events = list(self._buffer)` (66)
FlushSnapshot(i) ==
    /\ b_tasks[i].op = "flush_all"
    /\ b_tasks[i].pc = "locked"
    /\ b_tasks' = [b_tasks EXCEPT ![i].pc = "snapshot", ![i].events = b_buffer]
    /\ UNCHANGED <<b_max_size, b_buffer, b_lock, n_appended>>
    /\ OnlyBuffer

\* `self._buffer.clear(); return events` and the lock is released (67-68)
FlushReturn(i) ==
    /\ b_tasks[i].op = "flush_all"
    /\ b_tasks[i].pc = "snapshot"
    /\ b_buffer' = <<>>
    /\ b_tasks' = [b_tasks EXCEPT ![i].pc = "done", ![i].ret = Some(b_tasks[i].events)]
    /\ b_lock' = None
    /\ UNCHANGED <<b_max_size, n_appended>>
    /\ OnlyBuffer

NextBuffer ==
    \/ \E op \in {"add_event", "flush_all"} : BufferCall(op)
    \/ \E i \in DOMAIN b_tasks : Acquire(i)
    \/ \E i \in DOMAIN b_tasks : AddAppend(i)
    \/ \E i \in DOMAIN b_tasks : AddReturn(i)
    \/ \E i \in DOMAIN b_tasks : FlushSnapshot(i)
    \/ \E i \in DOMAIN b_tasks : FlushReturn(i)

\* --------------------------------------------------- claims on LogBuffer
\* how many times the event e is in the buffer or in a list a flush_all
\* has returned
RECURSIVE Copies(_, _)
Copies(e, i) ==
    IF i > Len(b_tasks) THEN Count(b_buffer, e)
    ELSE (IF b_tasks[i].op = "flush_all" /\ b_tasks[i].pc = "done"
          THEN Count(b_tasks[i].events, e) ELSE 0) + Copies(e, i + 1)
Increasing(s) == \A i \in 1..(Len(s) - 1) : s[i] < s[i + 1]

\* C26: under any interleaving of add_event and flush_all calls, every
\* event added is, once, either still buffered or in the list returned by
\* exactly one flush_all; each returned list is in the order of the
\* appends; add_event returns true exactly when the buffer size right
\* after its append is at least max_size.
C26_BufferCallsSerialized ==
    /\ \A e \in 1..n_appended : Copies(e, 1) = 1
    /\ Increasing(b_buffer)
    /\ \A i \in DOMAIN b_tasks :
           b_tasks[i].pc = "done" =>
               IF b_tasks[i].op = "flush_all"
               THEN Increasing(b_tasks[i].events)
               ELSE b_tasks[i].ret = Some(b_tasks[i].size_after >= b_max_size)

\* two events were added, a flush_all returned both in their order, and a
\* later add_event found the buffer empty
C26_Witness ==
    /\ b_max_size = 2
    /\ Len(b_tasks) = 4
    /\ b_tasks[1] = [op |-> "add_event", pc |-> "done", event |-> 1, events |-> <<>>,
                     size_after |-> 1, ret |-> Some(FALSE)]
    /\ b_tasks[2].op = "add_event" /\ b_tasks[2].ret = Some(TRUE)
    /\ b_tasks[3].op = "flush_all" /\ b_tasks[3].ret = Some(<<1, 2>>)
    /\ b_tasks[4].op = "add_event" /\ b_tasks[4].ret = Some(FALSE)
    /\ b_buffer = <<3>>

\* ====================== core/logger.py: the periodic task and the shutdown
\* The periodic task and _shutdown_logging at the grain of their suspension
\* points, with the executor job that run_in_executor hands the file flush
\* to. A job that a worker thread has started cannot be cancelled.

\* BrowserLogger after start_logging with auto_flush on: the sink is open
\* and the periodic task sleeps
InitShutdown ==
    /\ s_logging = TRUE
    /\ s_task = "sleeping"
    /\ s_cancelled = FALSE
    /\ s_job = "none"
    /\ s_buffered = 0
    /\ s_sink = "open"
    /\ s_stop = "idle"
    /\ s_on_file = 0

\* _handle_event appends an event (the buffer is not full)
EventBuffered ==
    /\ s_logging
    /\ s_buffered + s_on_file < MaxPending
    /\ s_buffered' = s_buffered + 1
    /\ UNCHANGED <<s_logging, s_task, s_cancelled, s_job, s_sink, s_stop, s_on_file>>
    /\ OnlyShutdown

\* _periodic_flush: the sleep is over (273-278); with events buffered
\* _flush_buffer takes them, writes them and awaits
\* run_in_executor(self._output_file.flush) (207-211)
PeriodicWake ==
    /\ s_task = "sleeping"
    /\ ~s_cancelled
    /\ IF ~s_logging
       THEN /\ s_task' = "done"
            /\ UNCHANGED <<s_buffered, s_job, s_on_file>>
       ELSE IF s_buffered > 0
       THEN /\ s_buffered' = 0
            /\ s_on_file' = s_on_file + s_buffered
            /\ s_job' = "queued"
            /\ s_task' = "flushing"
       ELSE UNCHANGED <<s_task, s_buffered, s_job, s_on_file>>
    /\ UNCHANGED <<s_logging, s_cancelled, s_sink, s_stop>>
    /\ OnlyShutdown

\* a worker thread of the executor starts the file flush
JobStart ==
    /\ s_job = "queued"
    /\ s_job' = "running"
    /\ UNCHANGED <<s_logging, s_task, s_cancelled, s_buffered, s_sink, s_stop, s_on_file>>
    /\ OnlyShutdown

\* the file flush in the worker thread ends
JobFinish ==
    /\ s_job = "running"
    /\ s_job' = "finished"
    /\ UNCHANGED <<s_logging, s_task, s_cancelled, s_buffered, s_sink, s_stop, s_on_file>>
    /\ OnlyShutdown

\* the periodic task resumes after its flush and sleeps again
PeriodicResume ==
    /\ s_task = "flushing"
    /\ s_job = "finished"
    /\ ~s_cancelled
    /\ s_job' = "none"
    /\ s_task' = IF s_logging THEN "sleeping" ELSE "done"
    /\ UNCHANGED <<s_logging, s_cancelled, s_buffered, s_sink, s_stop, s_on_file>>
    /\ OnlyShutdown

\* stop_logging of the last source: _shutdown_logging up to
\* `await self._flush_task` (258-262). cancel() cancels the future the task
\* waits for, which withdraws an executor job no thread has started yet.
ShutdownCall ==
    /\ s_stop = "idle"
    /\ s_logging' = FALSE
    /\ s_cancelled' = (s_task # "done")
    /\ s_job' = IF s_job = "queued" THEN "withdrawn" ELSE s_job
    /\ s_stop' = "await_task"
    /\ UNCHANGED <<s_task, s_buffered, s_sink, s_on_file>>
    /\ OnlyShutdown

\* CancelledError is thrown into the periodic task at its await; it is not
\* an Exception, so _flush_buffer does not catch it, and the task ends
PeriodicCancelled ==
    /\ s_cancelled
    /\ s_task \in {"sleeping", "flushing"}
    /\ s_task' = "done"
    /\ UNCHANGED <<s_logging, s_cancelled, s_job, s_buffered, s_sink, s_stop, s_on_file>>
    /\ OnlyShutdown

\* `await self._flush_task` is over: the final _flush_buffer (266), which
\* with nothing buffered returns at once so that the sink is closed
\* (267-271), and otherwise writes and awaits its own file flush
ShutdownFlush ==
    /\ s_stop = "await_task"
    /\ s_task = "done"
    /\ IF s_buffered > 0
       THEN /\ s_buffered' = 0
            /\ s_on_file' = s_on_file + s_buffered
            /\ s_stop' = "final_io"
            /\ UNCHANGED s_sink
       ELSE /\ s_sink' = "closed"
            /\ s_stop' = "done"
            /\ UNCHANGED <<s_buffered, s_on_file>>
    /\ UNCHANGED <<s_logging, s_task, s_cancelled, s_job>>
    /\ OnlyShutdown

\* the file flush of the final _flush_buffer is over: the sink is closed
ShutdownClose ==
    /\ s_stop = "final_io"
    /\ s_sink' = "closed"
    /\ s_stop' = "done"
    /\ UNCHANGED <<s_logging, s_task, s_cancelled, s_job, s_buffered, s_on_file>>
    /\ OnlyShutdown

NextShutdown ==
    \/ EventBuffered
    \/ PeriodicWake
    \/ JobStart
    \/ JobFinish
    \/ PeriodicResume
    \/ ShutdownCall
    \/ PeriodicCancelled
    \/ ShutdownFlush
    \/ ShutdownClose

\* --------------------------------------------------- claims on the shutdown
\* C27: the periodic task has ended before the final flush runs and before
\* the sink is closed, and no file flush the periodic task started is still
\* running when the final flush runs or once the sink is closed.
C27_NoPeriodicWriteAfterTask ==
    /\ s_stop \in {"final_io", "done"} => s_task = "done"
    /\ (s_stop \in {"final_io", "done"} \/ s_sink = "closed") => s_job # "running"

\* ================================= core/logger.py: the filters of a logger
\* A filter, by what its should_process does with an event: it returns
\* True, returns False, raises, or keeps the events of one session only.
FilterKinds == {"accept", "reject", "raises", "keep_e1"}
HandledEvents == {"e1", "e2"}

\* event_filter.should_process(event)
filter_outcome(kind, e) ==
    CASE kind = "accept" -> "true"
      [] kind = "reject" -> "false"
      [] kind = "raises" -> "raise"
      [] kind = "keep_e1" -> IF e = "e1" THEN "true" ELSE "false"

\* Mutant: a filter that raises blocks the event.
RECURSIVE run_filters_fail_closed(_, _, _, _)
run_filters_fail_closed(fs, e, i, seen) ==
    IF i > Len(fs) THEN [pass |-> TRUE, evaluated |-> seen]
    ELSE IF filter_outcome(fs[i], e) \in {"false", "raise"}
    THEN [pass |-> FALSE, evaluated |-> seen \cup {i}]
    ELSE run_filters_fail_closed(fs, e, i + 1, seen \cup {i})

\* the loop over self.filters in _handle_event from the filter at position
\* i on (130-137): `return` at the first False, `continue` at an exception.
\* seen holds the positions of the filters evaluated so far.
RECURSIVE run_filters(_, _, _, _)
run_filters(fs, e, i, seen) ==
    IF i > Len(fs) THEN [pass |-> TRUE, evaluated |-> seen]
    ELSE IF filter_outcome(fs[i], e) = "false"
    THEN [pass |-> FALSE, evaluated |-> seen \cup {i}]
    ELSE run_filters(fs, e, i + 1, seen \cup {i})

\* BrowserLogger.__init__: no filters (84), an empty buffer
InitHandle ==
    /\ h_filters = <<>>
    /\ h_buffer = <<>>
    /\ h_event = None
    /\ h_evaluated = {}

\* BrowserLogger.add_filter (281-282)
LoggerAddFilter(kind) ==
    /\ Len(h_filters) < MaxFilters
    /\ h_filters' = Append(h_filters, kind)
    /\ UNCHANGED <<h_buffer, h_event, h_evaluated>>
    /\ OnlyHandle

\* BrowserLogger.remove_filter (284-286): list.remove drops the first
\* filter equal to the one given
LoggerRemoveFilter(kind) ==
    /\ \E i \in 1..Len(h_filters) :
         /\ h_filters[i] = kind
         /\ \A j \in 1..(i - 1) : h_filters[j] # kind
         /\ h_filters' = [j \in 1..(Len(h_filters) - 1) |->
                            IF j < i THEN h_filters[j] ELSE h_filters[j + 1]]
    /\ UNCHANGED <<h_buffer, h_event, h_evaluated>>
    /\ OnlyHandle

\* BrowserLogger._handle_event(e) (127-144), the flush left aside
HandleFiltered(e) ==
    /\ Len(h_buffer) < MaxHandled
    /\ LET r == run_filters(h_filters, e, 1, {}) IN
       /\ h_evaluated' = r.evaluated
       /\ h_buffer' = IF r.pass THEN Append(h_buffer, e) ELSE h_buffer
    /\ h_event' = Some(e)
    /\ UNCHANGED h_filters
    /\ OnlyHandle

NextHandle ==
    \/ \E kind \in FilterKinds : LoggerAddFilter(kind)
    \/ \E kind \in FilterKinds : LoggerRemoveFilter(kind)
    \/ \E e \in HandledEvents : HandleFiltered(e)

\* ------------------------------------------------ claims on the filter loop
\* the positions of the filters that return False for the event e
Blocking(e) == {i \in 1..Len(h_filters) : filter_outcome(h_filters[i], e) = "false"}

\* the positions of the filters that raise for the event e
Raising(e) == {i \in 1..Len(h_filters) : filter_outcome(h_filters[i], e) = "raise"}

\* C28: a filter that raises does not block. Handling an event appends it to
\* the buffer if and only if no filter returns False for it, whatever
\* filters raise; the filters after one that raises are evaluated, up to
\* and including the first one that returns False.
C28_HandleStep ==
    \A e \in HandledEvents :
        HandleFiltered(e) =>
            /\ (h_buffer' = Append(h_buffer, e)) <=> (Blocking(e) = {})
            /\ (h_buffer' = h_buffer) <=> (Blocking(e) # {})
            /\ \A i \in 1..Len(h_filters) :
                 i \in h_evaluated' <=> (\A j \in Blocking(e) : i <= j)

C28_FilterErrorsFailOpen == [][C28_HandleStep]_vars

\* an event was appended although the first filter raised for it, and the
\* filter after it was evaluated
C28_Witness ==
    /\ Len(h_filters) = 2
    /\ h_event # None
    /\ \E e \in h_event :
         /\ 1 \in Raising(e)
         /\ h_evaluated = {1, 2}
         /\ h_buffer # <<>>
         /\ h_buffer[Len(h_buffer)] = e

\* ========================================================= specifications
\* A subsystem that a specification does not run stays as constructed.
IdleAction ==
    InitAction /\ retry_count = 0 /\ validate_before /\ wait_before = 0 /\ wait_after = 0
IdleEmit == InitEmit
IdleComposed == InitComposed /\ root = ComposedAction(FlatActions(1), TRUE, TRUE)
IdleConditional == InitConditional /\ else_action = None /\ k_retry = 0
IdleLogger ==
    InitLogger /\ auto_flush /\ max_size = 1 /\ session_id = [p \in Pages |-> "s1"]
IdleFilter ==
    /\ InitFilter
    /\ filter = [event_types |-> {}, domains |-> {}, selectors |-> {},
                 custom_filter |-> "none", exclude_mode |-> FALSE]
    /\ event = [event_type |-> "interaction", netloc |-> None, selector |-> None]
IdleChain == InitChain /\ chain = <<>>
IdleObjects == InitObjects /\ objects[1].retry_count = 0
IdleResults == InitResults
IdleEvents == InitEvents
IdleRotation == InitRotation /\ max_file_size = 2 /\ rotate_logs
IdleBuffer == InitBuffer /\ b_max_size = 1
IdleShutdown == InitShutdown
IdleHandle == InitHandle

\* one call of execute_with_hooks on an action of any configuration
ActionInit ==
    /\ InitAction
    /\ IdleEmit
    /\ IdleComposed
    /\ IdleConditional
    /\ IdleLogger
    /\ IdleFilter
    /\ IdleChain
    /\ IdleObjects
    /\ IdleResults
    /\ IdleEvents
    /\ IdleRotation
    /\ IdleBuffer
    /\ IdleShutdown
    /\ IdleHandle
SpecAction == ActionInit /\ [][NextAction]_vars

\* an emitter under any sequence of registry calls and emissions
EmitInit ==
    /\ InitEmit
    /\ IdleAction
    /\ IdleComposed
    /\ IdleConditional
    /\ IdleLogger
    /\ IdleFilter
    /\ IdleChain
    /\ IdleObjects
    /\ IdleResults
    /\ IdleEvents
    /\ IdleRotation
    /\ IdleBuffer
    /\ IdleShutdown
    /\ IdleHandle
SpecEmit == EmitInit /\ [][NextEmit]_vars

\* one execution of a ComposedAction of any shape
ComposedInit ==
    /\ InitComposed
    /\ IdleAction
    /\ IdleEmit
    /\ IdleConditional
    /\ IdleLogger
    /\ IdleFilter
    /\ IdleChain
    /\ IdleObjects
    /\ IdleResults
    /\ IdleEvents
    /\ IdleRotation
    /\ IdleBuffer
    /\ IdleShutdown
    /\ IdleHandle
SpecComposed == ComposedInit /\ [][NextComposed]_vars

\* one call of execute_with_hooks on a ConditionalAction
ConditionalInit ==
    /\ InitConditional
    /\ IdleAction
    /\ IdleEmit
    /\ IdleComposed
    /\ IdleLogger
    /\ IdleFilter
    /\ IdleChain
    /\ IdleObjects
    /\ IdleResults
    /\ IdleEvents
    /\ IdleRotation
    /\ IdleBuffer
    /\ IdleShutdown
    /\ IdleHandle
SpecConditional == ConditionalInit /\ [][NextConditional]_vars

\* a logger under any sequence of start_logging, stop_logging, events and ticks
LoggerInit ==
    /\ InitLogger
    /\ IdleAction
    /\ IdleEmit
    /\ IdleComposed
    /\ IdleConditional
    /\ IdleFilter
    /\ IdleChain
    /\ IdleObjects
    /\ IdleResults
    /\ IdleEvents
    /\ IdleRotation
    /\ IdleBuffer
    /\ IdleShutdown
    /\ IdleHandle
SpecLogger == LoggerInit /\ [][NextLogger]_vars

\* one call of should_process of any EventFilter on any event
FilterInit ==
    /\ InitFilter
    /\ IdleAction
    /\ IdleEmit
    /\ IdleComposed
    /\ IdleConditional
    /\ IdleLogger
    /\ IdleChain
    /\ IdleObjects
    /\ IdleResults
    /\ IdleEvents
    /\ IdleRotation
    /\ IdleBuffer
    /\ IdleShutdown
    /\ IdleHandle
SpecFilter == FilterInit /\ [][NextFilter]_vars

\* a FilterChain built by add_filter and asked about an event
ChainInit ==
    /\ InitChain
    /\ IdleAction
    /\ IdleEmit
    /\ IdleComposed
    /\ IdleConditional
    /\ IdleLogger
    /\ IdleFilter
    /\ IdleObjects
    /\ IdleResults
    /\ IdleEvents
    /\ IdleRotation
    /\ IdleBuffer
    /\ IdleShutdown
    /\ IdleHandle
SpecChain == ChainInit /\ [][NextChain]_vars

\* action objects under any sequence of helper calls and concurrent executions
ObjectsInit ==
    /\ InitObjects
    /\ IdleAction
    /\ IdleEmit
    /\ IdleComposed
    /\ IdleConditional
    /\ IdleLogger
    /\ IdleFilter
    /\ IdleChain
    /\ IdleResults
    /\ IdleEvents
    /\ IdleRotation
    /\ IdleBuffer
    /\ IdleShutdown
    /\ IdleHandle
SpecObjects == ObjectsInit /\ [][NextObjects]_vars

\* an ActionResult made by a factory and changed by any sequence of calls
ResultsInit ==
    /\ InitResults
    /\ IdleAction
    /\ IdleEmit
    /\ IdleComposed
    /\ IdleConditional
    /\ IdleLogger
    /\ IdleFilter
    /\ IdleChain
    /\ IdleObjects
    /\ IdleEvents
    /\ IdleRotation
    /\ IdleBuffer
    /\ IdleShutdown
    /\ IdleHandle
SpecResults == ResultsInit /\ [][NextResults]_vars

\* an event built by a constructor or by create_event, then emitted
EventsInit ==
    /\ InitEvents
    /\ IdleAction
    /\ IdleEmit
    /\ IdleComposed
    /\ IdleConditional
    /\ IdleLogger
    /\ IdleFilter
    /\ IdleChain
    /\ IdleObjects
    /\ IdleResults
    /\ IdleRotation
    /\ IdleBuffer
    /\ IdleShutdown
    /\ IdleHandle
SpecEvents == EventsInit /\ [][NextEvents]_vars

\* the log file under any sequence of flushes and clock ticks
RotationInit ==
    /\ InitRotation
    /\ IdleAction
    /\ IdleEmit
    /\ IdleComposed
    /\ IdleConditional
    /\ IdleLogger
    /\ IdleFilter
    /\ IdleChain
    /\ IdleObjects
    /\ IdleResults
    /\ IdleEvents
    /\ IdleBuffer
    /\ IdleShutdown
    /\ IdleHandle
SpecRotation == RotationInit /\ [][NextRotation]_vars

\* a LogBuffer under any interleaving of add_event and flush_all calls
BufferInit ==
    /\ InitBuffer
    /\ IdleAction
    /\ IdleEmit
    /\ IdleComposed
    /\ IdleConditional
    /\ IdleLogger
    /\ IdleFilter
    /\ IdleChain
    /\ IdleObjects
    /\ IdleResults
    /\ IdleEvents
    /\ IdleRotation
    /\ IdleShutdown
    /\ IdleHandle
SpecBuffer == BufferInit /\ [][NextBuffer]_vars

\* the periodic task of a started logger, events, and the shutdown
ShutdownInit ==
    /\ InitShutdown
    /\ IdleAction
    /\ IdleEmit
    /\ IdleComposed
    /\ IdleConditional
    /\ IdleLogger
    /\ IdleFilter
    /\ IdleChain
    /\ IdleObjects
    /\ IdleResults
    /\ IdleEvents
    /\ IdleRotation
    /\ IdleBuffer
    /\ IdleHandle
SpecShutdown == ShutdownInit /\ [][NextShutdown]_vars

\* filters added and removed, events handled
HandleInit ==
    /\ InitHandle
    /\ IdleAction
    /\ IdleEmit
    /\ IdleComposed
    /\ IdleConditional
    /\ IdleLogger
    /\ IdleFilter
    /\ IdleChain
    /\ IdleObjects
    /\ IdleResults
    /\ IdleEvents
    /\ IdleRotation
    /\ IdleBuffer
    /\ IdleShutdown
SpecHandle == HandleInit /\ [][NextHandle]_vars

\* The same executions when the event loop keeps running: timers fire, sleeps
\* end, and every awaited call completes or is cut off.
LiveAction == SpecAction /\ WF_vars(NextAction)
LiveComposed == SpecComposed /\ WF_vars(NextComposed)

====
